---- MODULE Spec2Model ----
(***************************************************************************)
(* A model of marvin's type-directed generation engine                     *)
(* (src/src/marvin/ai/text.py): the tool-forcing response loop, the        *)
(* logit-bias classifier and generate() with its repetition-avoiding       *)
(* cache.  Every await on the Model Service is a step boundary; the code   *)
(* between two awaits is one action.                                       *)
(***************************************************************************)
EXTENDS Integers, Sequences, FiniteSets, TLC

VARIABLES rg, cls, gen, GENERATE_CACHE, nextItem, calls, lastGen,
          disable_contract, mt, fc, cst, kw, mp

vars == <<rg, cls, gen, GENERATE_CACHE, nextItem, calls, lastGen,
          disable_contract, mt, fc, cst, kw, mp>>

(* The state of match, func_contract and the constraint validator, which   *)
(* the generation engine itself never writes.                              *)
contract_vars == <<disable_contract, mt, fc, cst>>

(* The mappings a caller hands to the Response Generator, and the state of *)
(* a map variant: written only by the calls that are given them.           *)
call_vars == <<kw, mp>>

----------------------------------------------------------------------------
(* Bounds of the model.                                                    *)

NumProcs == 2
MaxBudget == 4
MaxToolCalls == 2
MaxValue == 2

Procs == 1..NumProcs

(* The caller of the specifications in which calls follow one another.    *)
Caller == CHOOSE p \in Procs : \A q \in Procs : p <= q

----------------------------------------------------------------------------
(* Values.  A Python value is a tagged record, so that None, a scalar and  *)
(* a list never compare equal.                                             *)

None == [tag |-> "none", payload |-> <<>>]
Scalar(v) == [tag |-> "val", payload |-> <<v>>]
List(items) == [tag |-> "list", payload |-> items]

Min(a, b) == IF a < b THEN a ELSE b

Take(s, k) == SubSeq(s, 1, Min(k, Len(s)))

Reverse(s) == [i \in 1..Len(s) |-> s[Len(s) - i + 1]]

Range(s) == {s[i] : i \in 1..Len(s)}

----------------------------------------------------------------------------
(* The Response Generator: _generate_typed_llm_response_with_tool.         *)

return_tool_name == "FormatFinalResponse"
aux_tool_name == "aux"

(* A tool call of a model reply.  ok says whether executing the call       *)
(* locally succeeds (call_function_tool returns); out is what it returns.  *)
ToolCall(name, ok, out) == [name |-> name, ok |-> ok, out |-> out]

AssistantMessage(tool_calls) ==
    [role |-> "assistant", tool_calls |-> tool_calls, content |-> None,
     tool_call_id |-> 0]

ToolMessage(output) ==
    [role |-> "tool", tool_calls |-> <<>>, content |-> output.output,
     tool_call_id |-> output.tool_id]

ToolOutput(tool_name, tool_id, output) ==
    [tool_name |-> tool_name, tool_id |-> tool_id, output |-> output]

get_tool_outputs_newest_first(tool_calls, base) ==
    [i \in 1..Len(tool_calls) |->
        ToolOutput(tool_calls[Len(tool_calls) + 1 - i].name,
                   base + Len(tool_calls) + 1 - i,
                   tool_calls[Len(tool_calls) + 1 - i].out)]

(* _get_tool_outputs: one output per tool call, in call order.  The id of  *)
(* the i-th call of a reply is base + i.                                   *)
get_tool_outputs(tool_calls, base) ==
    [i \in 1..Len(tool_calls) |->
        ToolOutput(tool_calls[i].name, base + i, tool_calls[i].out)]

(* The ids of the calls for which the loop of _get_tool_outputs, lines     *)
(* 136-141, ran call_function_tool: every call of the reply in call order, *)
(* up to and including the first one that raises.                          *)
ExecutedCalls(tool_calls, base) ==
    LET raising == {i \in 1..Len(tool_calls) : ~tool_calls[i].ok}
        last == IF raising = {} THEN Len(tool_calls)
                ELSE CHOOSE i \in raising : \A j \in raising : i <= j
    IN  [i \in 1..last |-> base + i]

(* call_function_tool raises for some call of the reply: the exception     *)
(* leaves _get_tool_outputs, generate_llm_response and the loop.           *)
ToolRaises(tool_calls) == \E i \in 1..Len(tool_calls) : ~tool_calls[i].ok

FirstRaising(tool_calls) ==
    CHOOSE i \in 1..Len(tool_calls) :
        ~tool_calls[i].ok /\ \A j \in 1..(i - 1) : tool_calls[j].ok

ToolError(tc) ==
    IF tc.name = return_tool_name THEN "ValidationError" ELSE "ToolError"

IsReturnOutput(o) == o.tool_name = return_tool_name

ReturnResOfAnyTool(tool_outputs) == tool_outputs

(* return_res: the outputs of the final-answer tool, in call order.        *)
RECURSIVE return_res(_)
return_res(tool_outputs) ==
    IF tool_outputs = <<>> THEN <<>>
    ELSE IF IsReturnOutput(Head(tool_outputs))
         THEN <<Head(tool_outputs)>> \o return_res(Tail(tool_outputs))
         ELSE return_res(Tail(tool_outputs))

LoopGuardOffByOne(max_tool_usage_times) == max_tool_usage_times >= 0

(* while max_tool_usage_times > 0 *)
LoopGuard(max_tool_usage_times) == max_tool_usage_times > 0

(* tool_choice of a turn: "auto", or the forced final-answer tool.         *)
tool_choice(max_tool_usage_times, model_didnt_call_function) ==
    IF max_tool_usage_times > 1 /\ ~model_didnt_call_function
    THEN "auto" ELSE return_tool_name

RGIdle ==
    [status |-> "idle", caller |-> "none", budget |-> 0,
     max_tool_usage_times |-> 0, model_didnt_call_function |-> FALSE,
     new_messages |-> <<>>, requests |-> <<>>, service_calls |-> 0,
     tool_calls |-> <<>>, executed |-> <<>>,
     result |-> None, error |-> "none"]

(* The state of a call on entry, lines 185-190, and the first test of the  *)
(* loop guard: a budget that fails it falls off the end of the function.   *)
RGEnter(caller, N) ==
    [RGIdle EXCEPT !.status = IF LoopGuard(N) THEN "running" ELSE "returned",
                   !.caller = caller, !.budget = N,
                   !.max_tool_usage_times = N]

(* One iteration of the loop with a reply of the Model Service; failed     *)
(* says that the service call itself raised.                               *)
RGIterate(r, failed, tool_calls) ==
    LET choice == tool_choice(r.max_tool_usage_times,
                              r.model_didnt_call_function)
        request == [tool_choice |-> choice, extra_messages |-> r.new_messages]
        base == r.service_calls * MaxToolCalls
        sent == [r EXCEPT !.requests = Append(@, request),
                          !.service_calls = @ + 1,
                          !.tool_calls = tool_calls,
                          !.executed = ExecutedCalls(tool_calls, base)]
        tool_outputs == get_tool_outputs(tool_calls, base)
        answers == return_res(tool_outputs)
        appended == Append(r.new_messages, AssistantMessage(tool_calls))
        didnt == IF Len(tool_outputs) = 0 THEN TRUE
                 ELSE r.model_didnt_call_function
        left == r.max_tool_usage_times - 1
    IN  IF failed
        THEN [sent EXCEPT !.status = "raised", !.error = "TransportError"]
        ELSE IF ToolRaises(tool_calls)
        THEN [sent EXCEPT !.status = "raised",
                          !.error = ToolError(tool_calls[FirstRaising(tool_calls)])]
        ELSE IF answers # <<>>
        THEN [sent EXCEPT !.status = "returned",
                          !.new_messages = appended,
                          !.model_didnt_call_function = didnt,
                          !.result = answers[1].output]
        ELSE [sent EXCEPT !.status = IF LoopGuard(left) THEN "running"
                                     ELSE "returned",
                          !.new_messages =
                              appended \o [i \in 1..Len(tool_outputs) |->
                                              ToolMessage(tool_outputs[i])],
                          !.model_didnt_call_function = didnt,
                          !.max_tool_usage_times = left,
                          !.result = None]

(* The tool calls a reply can hold when the caller's target is a scalar.   *)
DirectToolCalls ==
    {ToolCall(return_tool_name, TRUE, Scalar(v)) : v \in 1..MaxValue}
    \cup {ToolCall(return_tool_name, FALSE, None),
          ToolCall(aux_tool_name, TRUE, Scalar(0)),
          ToolCall(aux_tool_name, FALSE, None)}

SeqsUpTo(S, k) == UNION {[1..m -> S] : m \in 0..k}

DirectReplies == SeqsUpTo(DirectToolCalls, MaxToolCalls)

(* A caller (cast, extract, fn) starts the Response Generator.             *)
RGCall(p, N) ==
    /\ rg[p].status # "running"
    /\ UNCHANGED <<contract_vars, call_vars>>
    /\ rg' = [rg EXCEPT ![p] = RGEnter("direct", N)]
    /\ UNCHANGED <<cls, gen, GENERATE_CACHE, nextItem, calls, lastGen>>

(* One turn: the Model Service answers and the loop body runs to the next  *)
(* await, to a return or to an exception.                                  *)
RGTurn(p, failed, tool_calls) ==
    /\ rg[p].status = "running"
    /\ UNCHANGED <<contract_vars, call_vars>>
    /\ rg[p].caller = "direct"
    /\ rg' = [rg EXCEPT ![p] = RGIterate(rg[p], failed, tool_calls)]
    /\ UNCHANGED <<cls, gen, GENERATE_CACHE, nextItem, calls, lastGen>>

RGServiceFails(p) == RGTurn(p, TRUE, <<>>)

RGServiceReplies(p) == \E tcs \in DirectReplies : RGTurn(p, FALSE, tcs)

----------------------------------------------------------------------------
(* The mappings model_kwargs and prompt_kwargs that a caller hands to the  *)
(* Response Generator.  A Python dict is a set of entries with distinct    *)
(* keys; passed says whether the caller gave a mapping or None.            *)

DictEntry(key, value) == [key |-> key, value |-> value]

Keys(d) == {e.key : e \in d}

(* dict.update and d[key] = value: the entries given replace the entries   *)
(* of the same keys.                                                       *)
DictUpdate(d, entries) == {e \in d : e.key \notin Keys(entries)} \cup entries

NotPassed == [passed |-> FALSE, entries |-> {}]
Passed(d) == [passed |-> TRUE, entries |-> d]

(* `model_kwargs = model_kwargs or {}`, lines 186-187: the local name is   *)
(* bound to the caller's dict unless that is None or empty, which are      *)
(* replaced by a new dict.                                                 *)
AliasesCaller(mapping) == mapping.passed /\ mapping.entries # {}

(* model_kwargs.update(tools=..., tool_choice=tool_choice), lines 203-205. *)
UpdateModelKwargs(d, choice) ==
    DictUpdate(d, {DictEntry("tools", "return_tool + existing_tools"),
                   DictEntry("tool_choice", choice)})

(* prompt_kwargs["response_format"] = return_tool.function.parameters,     *)
(* line 209.                                                               *)
SetResponseFormat(d) ==
    DictUpdate(d, {DictEntry("response_format", "parameters")})

(* The callers of the Response Generator that pass their own caller's      *)
(* model_kwargs on: fn (line 678), match (line 1329) and                   *)
(* validate_natural_lang_constraints (line 713), besides a direct call.    *)
Vias == {"direct", "fn", "match", "validate"}

(* fn passes max_tool_usage_times + 1 (line 681); match and the validator  *)
(* leave the default of 1 (line 159).                                      *)
ViaBudget(via, N) ==
    CASE via = "direct" -> N
      [] via = "fn" -> N + 1
      [] OTHER -> 1

(* Only a direct call hands its prompt_kwargs to the Response Generator:   *)
(* fn, match and the validator build a new dict(...) for each call (lines  *)
(* 670-676, 1326-1328, 708-712).                                           *)
PromptKwargsHandedOn(via, prompt_kwargs) ==
    IF via = "direct" THEN prompt_kwargs ELSE NotPassed

KwIdle ==
    [via |-> "none",
     model_kwargs |-> NotPassed, prompt_kwargs |-> NotPassed,
     model_before |-> NotPassed, prompt_before |-> NotPassed,
     model_aliased |-> FALSE, prompt_aliased |-> FALSE]

(* The mappings the caller may hold when it calls.                         *)
ModelKwargsInputs ==
    {NotPassed, Passed({}), Passed({DictEntry("temperature", "0.2")}),
     Passed({DictEntry("tool_choice", "none")})}

PromptKwargsInputs ==
    {NotPassed, Passed({}), Passed({DictEntry("data", "text")})}

KwEnter(via, model_kwargs, prompt_kwargs) ==
    [via |-> via,
     model_kwargs |-> model_kwargs, prompt_kwargs |-> prompt_kwargs,
     model_before |-> model_kwargs, prompt_before |-> prompt_kwargs,
     model_aliased |-> AliasesCaller(model_kwargs),
     prompt_aliased |->
         AliasesCaller(PromptKwargsHandedOn(via, prompt_kwargs))]

(* Lines 195-209, the part of an iteration before the request is sent:     *)
(* the two local dicts are written, and with them the caller's dicts they  *)
(* are bound to.                                                           *)
KwIteration(k, r) ==
    IF r.status # "running" THEN k
    ELSE [k EXCEPT
            !.model_kwargs =
                IF k.model_aliased
                THEN Passed(UpdateModelKwargs(
                         @.entries,
                         tool_choice(r.max_tool_usage_times,
                                     r.model_didnt_call_function)))
                ELSE @,
            !.prompt_kwargs =
                IF k.prompt_aliased THEN Passed(SetResponseFormat(@.entries))
                ELSE @]

(* A call of the Response Generator with mappings of the caller, up to the *)
(* first request.                                                          *)
KwargsCall(p, via, N, model_kwargs, prompt_kwargs) ==
    /\ rg[p].status = "idle"
    /\ rg' = [rg EXCEPT ![p] = RGEnter(via, ViaBudget(via, N))]
    /\ kw' = KwIteration(KwEnter(via, model_kwargs, prompt_kwargs), rg'[p])
    /\ UNCHANGED <<cls, gen, GENERATE_CACHE, nextItem, calls, lastGen,
                   contract_vars, mp>>

(* One turn of such a call: the rest of the iteration and, when the loop   *)
(* goes on, the next iteration up to its request.                          *)
KwargsTurn(p, failed, tool_calls) ==
    /\ rg[p].status = "running"
    /\ rg[p].caller \in Vias
    /\ rg[p].caller = kw.via
    /\ rg' = [rg EXCEPT ![p] = RGIterate(rg[p], failed, tool_calls)]
    /\ kw' = KwIteration(kw, rg'[p])
    /\ UNCHANGED <<cls, gen, GENERATE_CACHE, nextItem, calls, lastGen,
                   contract_vars, mp>>

KwargsServiceFails(p) == KwargsTurn(p, TRUE, <<>>)

KwargsServiceReplies(p) == \E tcs \in DirectReplies : KwargsTurn(p, FALSE, tcs)

----------------------------------------------------------------------------
(* The Classifier: classify_async and                                      *)
(* _generate_typed_llm_response_with_logit_bias.                           *)

MaxLabels == 3
MaxIndex == 4

LabelNames == {"a", "b", "c"}

(* The labels argument: the type bool, an Enum class, a Literal or a list  *)
(* of strings; members are the enum's values or the listed strings.        *)
Labels(kind, members) == [kind |-> kind, members |-> members]

LabelInputs ==
    {Labels("bool", <<>>)}
    \cup {Labels(k, m) : k \in {"enum", "literal", "list"},
                         m \in UNION {[1..n -> LabelNames] : n \in 1..MaxLabels}}

(* Values a classification returns.                                        *)
PyBool(b) == [tag |-> "bool", v |-> IF b THEN "True" ELSE "False"]
PyStr(x) == [tag |-> "str", v |-> x]
EnumMember(x) == [tag |-> "member", v |-> x]
NoLabel == [tag |-> "none", v |-> ""]

(* cast_type_to_labels: the label strings, in the order supplied.          *)
cast_type_to_labels(labels) ==
    IF labels.kind = "bool" THEN <<"false", "true">> ELSE labels.members

(* isinstance(labels, type): bool and Enum classes are types, a Literal    *)
(* and a list are not.                                                     *)
IsType(labels) == labels.kind \in {"bool", "enum"}

(* The failure of an index that is out of range.                           *)
OutOfRangeError == "IndexError"

(* Python's seq[i]: 0-based, a negative i counts from the end, anything    *)
(* else is an IndexError.                                                  *)
PyInRange(seq, i) == -Len(seq) <= i /\ i < Len(seq)

PyIndex(seq, i) == IF i >= 0 THEN seq[i + 1] ELSE seq[Len(seq) + i + 1]

RebuildForgotten(labels, result) == PyStr(result)

(* labels(result) if isinstance(labels, type) else result *)
Rebuild(labels, result) ==
    IF IsType(labels) THEN EnumMember(result) ELSE PyStr(result)

ClassifyPromptLabelsFromOne(label_strings) ==
    [i \in 1..Len(label_strings) |->
        [number |-> i, label |-> label_strings[i]]]

(* The lines `- Label #{{ loop.index0 }}: {{ label }}` of CLASSIFY_PROMPT,  *)
(* one for each label in the order of the list the template is given.      *)
ClassifyPromptLabels(label_strings) ==
    [i \in 1..Len(label_strings) |->
        [number |-> i - 1, label |-> label_strings[i]]]

ClsIdle ==
    [status |-> "idle", labels |-> Labels("bool", <<>>),
     label_strings |-> <<>>, prompt_labels |-> <<>>,
     numeric |-> FALSE, label_index |-> 0,
     logit_bias |-> {}, content |-> <<>>,
     result |-> NoLabel, error |-> "none"]

(* Lines 282-297: the request is built and sent; the prompt is rendered    *)
(* with labels=label_strings (line 294).                                   *)
ClsEnter(labels) ==
    [ClsIdle EXCEPT !.status = "waiting", !.labels = labels,
                    !.label_strings = cast_type_to_labels(labels),
                    !.prompt_labels =
                        ClassifyPromptLabels(cast_type_to_labels(labels))]

(* Lines 299-306: the reply is decoded.  numeric says whether int()        *)
(* accepts the content; label_index is what it yields.                     *)
ClsDecode(c, numeric, label_index) ==
    LET got == [c EXCEPT !.numeric = numeric, !.label_index = label_index]
    IN  IF ~numeric
        THEN [got EXCEPT !.status = "raised", !.error = "ValueError"]
        ELSE IF c.labels.kind = "bool"
        THEN [got EXCEPT !.status = "returned",
                         !.result = PyBool(label_index # 0)]
        ELSE IF ~PyInRange(c.label_strings, label_index)
        THEN [got EXCEPT !.status = "raised", !.error = OutOfRangeError]
        ELSE [got EXCEPT !.status = "returned",
                         !.result = Rebuild(c.labels,
                                            PyIndex(c.label_strings, label_index))]

ClassifyCall(p, labels) ==
    /\ cls[p].status # "waiting"
    /\ UNCHANGED <<contract_vars, call_vars>>
    /\ cls' = [cls EXCEPT ![p] = ClsEnter(labels)]
    /\ UNCHANGED <<rg, gen, GENERATE_CACHE, nextItem, calls, lastGen>>

ClassifyReply(p, numeric, label_index) ==
    /\ cls[p].status = "waiting"
    /\ UNCHANGED <<contract_vars, call_vars>>
    /\ cls' = [cls EXCEPT ![p] = ClsDecode(cls[p], numeric, label_index)]
    /\ UNCHANGED <<rg, gen, GENERATE_CACHE, nextItem, calls, lastGen>>

ClassifyReplyNumber(p) ==
    \E i \in (-MaxIndex)..MaxIndex : ClassifyReply(p, TRUE, i)

ClassifyReplyOther(p) == ClassifyReply(p, FALSE, 0)

ClassifyServiceFails(p) ==
    /\ cls[p].status = "waiting"
    /\ UNCHANGED <<contract_vars, call_vars>>
    /\ cls' = [cls EXCEPT ![p].status = "raised",
                          ![p].error = "TransportError"]
    /\ UNCHANGED <<rg, gen, GENERATE_CACHE, nextItem, calls, lastGen>>

----------------------------------------------------------------------------
(* The AIEnum classifier of marvin.components.ai_classifier.               *)

(* str(i) for i >= 0, as the sequence of its decimal digits, and int() of  *)
(* such a sequence.                                                        *)
RECURSIVE Str(_)
Str(i) == IF i < 10 THEN <<i>> ELSE Str(i \div 10) \o <<i % 10>>

RECURSIVE IntOf(_)
IntOf(digits) ==
    IF digits = <<>> THEN 0
    ELSE 10 * IntOf(SubSeq(digits, 1, Len(digits) - 1)) + digits[Len(digits)]

(* model.get_tokens of the decimal string of an option number: one token.  *)
get_tokens(text) == <<text>>

(* Lines 22-24 of ClassifierSystem: `{{ loop.index }}. {{ option }}` for   *)
(* each option, in the order of the list.                                  *)
ClassifierSystemOptions(options) ==
    [i \in 1..Len(options) |-> [number |-> i, label |-> options[i]]]

(* Lines 168-171: the tokens that are given a bias, the first token of     *)
(* str(i) for i in range(1, len(cls) + 1).                                 *)
LogitBias(length) == {Head(get_tokens(Str(i))) : i \in 1..length}

AIEnumIndexFromZero(k) == k

(* Line 176: list(cls)[int(response.content) - 1] *)
AIEnumIndex(k) == k - 1

(* The enums of the inputs: up to MaxLabels members with different names,  *)
(* in definition order.                                                    *)
AIEnumInputs ==
    {m \in UNION {[1..n -> LabelNames] : n \in 1..MaxLabels} :
        \A i, j \in 1..Len(m) : m[i] = m[j] => i = j}

(* Lines 143-173 of _missing_, up to the request: the options are the      *)
(* names of the members (value_getter), in the order of iteration.         *)
AIEnumMissing(p, members) ==
    /\ cls[p].status # "waiting"
    /\ UNCHANGED <<contract_vars, call_vars>>
    /\ cls' = [cls EXCEPT ![p] =
                 [ClsIdle EXCEPT
                     !.status = "waiting",
                     !.labels = Labels("enum", members),
                     !.label_strings = members,
                     !.prompt_labels = ClassifierSystemOptions(members),
                     !.logit_bias = LogitBias(Len(members))]]
    /\ UNCHANGED <<rg, gen, GENERATE_CACHE, nextItem, calls, lastGen>>

(* Line 176: the reply is decoded.  numeric says whether int() accepts the *)
(* content, which then is a sequence of digits.                            *)
AIEnumDecode(c, numeric, content) ==
    LET index == AIEnumIndex(IntOf(content))
        got == [c EXCEPT !.numeric = numeric, !.content = content]
    IN  IF ~numeric
        THEN [got EXCEPT !.status = "raised", !.error = "ValueError"]
        ELSE IF ~PyInRange(c.label_strings, index)
        THEN [got EXCEPT !.status = "raised", !.error = OutOfRangeError,
                         !.label_index = index]
        ELSE [got EXCEPT !.status = "returned", !.label_index = index,
                         !.result =
                             EnumMember(PyIndex(c.label_strings, index))]

AIEnumReply(p, numeric, content) ==
    /\ cls[p].status = "waiting"
    /\ cls[p].logit_bias # {}
    /\ UNCHANGED <<contract_vars, call_vars>>
    /\ cls' = [cls EXCEPT ![p] = AIEnumDecode(cls[p], numeric, content)]
    /\ UNCHANGED <<rg, gen, GENERATE_CACHE, nextItem, calls, lastGen>>

AIEnumReplyNumber(p) == \E k \in 0..MaxIndex : AIEnumReply(p, TRUE, Str(k))

AIEnumReplyOther(p) == AIEnumReply(p, FALSE, <<>>)

AIEnumServiceFails(p) ==
    /\ cls[p].logit_bias # {}
    /\ ClassifyServiceFails(p)

----------------------------------------------------------------------------
(* generate_async and the Generation Cache.                                *)

GenerateCacheMaxSize == 1000
DequeMaxLen == 100
TokenCap == 3
MaxCalls == 2
MaxAttempts == 2

(* GENERATE_CACHE is the sequence of its entries from the least to the     *)
(* most recently used; an entry is a key and the deque stored for it,      *)
(* most recent item first.  Items are numbered in the order the Model      *)
(* Service produced them.                                                  *)
Entry(key, hist) == [key |-> key, hist |-> hist]

CacheKeys(cache) == {cache[i].key : i \in 1..Len(cache)}

CacheIndex(cache, key) == CHOOSE i \in 1..Len(cache) : cache[i].key = key

CacheGet(cache, key) == cache[CacheIndex(cache, key)].hist

Remove(s, i) == SubSeq(s, 1, i - 1) \o SubSeq(s, i + 1, Len(s))

(* LRUCache.popitem until there is room for one more entry.                *)
RECURSIVE MakeRoom(_)
MakeRoom(cache) ==
    IF Len(cache) + 1 > GenerateCacheMaxSize /\ cache # <<>>
    THEN MakeRoom(Tail(cache)) ELSE cache

(* GENERATE_CACHE.setdefault(cache_key, deque(maxlen=100)): a key that is  *)
(* present becomes the most recently used; a new key is stored with an     *)
(* empty deque after the least recently used entries made room for it.     *)
SetDefault(cache, key) ==
    IF key \in CacheKeys(cache)
    THEN LET i == CacheIndex(cache, key)
         IN  Append(Remove(cache, i), cache[i])
    ELSE Append(MakeRoom(cache), Entry(key, <<>>))

(* count_tokens(str(r)): the size of an item is a function of the item.    *)
count_tokens(r) == 1 + (r % 2)

(* The loop of lines 503-507 over the cached items, most recent first.     *)
(* tokens never decreases, so once it exceeds the cap every later item is  *)
(* skipped by the continue and previous_responses is final.                *)
RECURSIVE TokenCapLoop(_, _, _)
TokenCapLoop(items, tokens, previous_responses) ==
    IF items = <<>> \/ tokens > TokenCap THEN previous_responses
    ELSE TokenCapLoop(Tail(items), tokens + count_tokens(Head(items)),
                      Append(previous_responses, Head(items)))

PreviousResponsesIgnoringFlag(cached_responses, use_cache) ==
    TokenCapLoop(cached_responses, 0, <<>>)

(* for r in list(cached_responses) if use_cache else [] *)
PreviousResponses(cached_responses, use_cache) ==
    TokenCapLoop(IF use_cache THEN cached_responses ELSE <<>>, 0, <<>>)

AppendLeftAllKeepingOld(dq, result) ==
    Take(dq \o Reverse(result), DequeMaxLen)

AppendLeftAllInOrder(dq, result) == Take(result \o dq, DequeMaxLen)

(* for r in result: cached_responses.appendleft(r), on a deque with        *)
(* maxlen.  Each appendleft puts its item in front of the ones before it   *)
(* and a full deque drops its last item, so the loop leaves the items in   *)
(* reverse order in front of the old ones, cut to maxlen.                  *)
AppendLeftAll(dq, result) == Take(Reverse(result) \o dq, DequeMaxLen)

RecordOverwriting(cache, key, result) ==
    IF key \in CacheKeys(cache)
    THEN [cache EXCEPT ![CacheIndex(cache, key)].hist =
                            AppendLeftAll(<<>>, result)]
    ELSE cache

(* Lines 530-532: the items go to the deque the call obtained on entry.    *)
Record(cache, key, result) ==
    IF key \in CacheKeys(cache)
    THEN [cache EXCEPT ![CacheIndex(cache, key)].hist =
                            AppendLeftAll(@, result)]
    ELSE cache

(* if len(result) > n: result = result[:n] *)
Truncate(result, n) == IF Len(result) > n THEN SubSeq(result, 1, n) ELSE result

LoopWhileTooMany(result, n) == Len(result) > n

(* while len(result) != n *)
GenerateLoopGuard(result, n) == Len(result) # n

GenIdle ==
    [status |-> "idle", cache_key |-> 0, n |-> 0, use_cache |-> FALSE,
     previous_responses |-> <<>>, attempts |-> 0, raw |-> <<>>,
     result |-> <<>>, error |-> "none", history_before |-> <<>>,
     prev |-> [returned |-> FALSE, cache_key |-> 0, use_cache |-> FALSE,
               result |-> <<>>]]

NoCall == GenIdle.prev

(* What a later call can be compared with: the call that ended before it. *)
Summary(g) ==
    [returned |-> g.status = "returned", cache_key |-> g.cache_key,
     use_cache |-> g.use_cache,
     result |-> IF g.status = "returned" THEN g.result ELSE <<>>]

GenerateCounts == {2, DequeMaxLen + 1}

CallKeys == {GenerateCacheMaxSize, GenerateCacheMaxSize + 1}

(* The replies to one turn of generate's Response Generator call: no tool  *)
(* call, a final answer of n-1, n or n+1 fresh items, a final answer that  *)
(* fails validation, or a call of a tool that does not exist.              *)
FreshItems(len) == [i \in 1..len |-> nextItem + i - 1]

GenerateReplies(n) ==
    {<<>>, <<ToolCall(return_tool_name, FALSE, None)>>,
     <<ToolCall(aux_tool_name, FALSE, None)>>}
    \cup {<<ToolCall(return_tool_name, TRUE, List(FreshItems(len)))>> :
            len \in {n - 1, n, n + 1}}

ItemsOf(tool_calls) ==
    IF tool_calls # <<>> /\ tool_calls[1].out.tag = "list"
    THEN Len(tool_calls[1].out.payload) ELSE 0

(* The items recorded under a key, none for a key the cache does not hold. *)
History(cache, key) ==
    IF key \in CacheKeys(cache) THEN CacheGet(cache, key) ELSE <<>>

(* Lines 490-512: the cache entry is fetched or created, the previous      *)
(* responses are chosen, and the first Response Generator call is made.    *)
(* history_before keeps, for observation, what the key held at the call.   *)
GenerateCall(p, key, n, use_cache) ==
    /\ gen[p].status # "awaiting"
    /\ UNCHANGED <<contract_vars, call_vars>>
    /\ rg[p].status # "running"
    /\ calls < MaxCalls
    /\ calls' = calls + 1
    /\ GENERATE_CACHE' = SetDefault(GENERATE_CACHE, key)
    /\ gen' = [gen EXCEPT ![p] =
                 [GenIdle EXCEPT
                     !.status = "awaiting", !.cache_key = key, !.n = n,
                     !.use_cache = use_cache,
                     !.previous_responses =
                         PreviousResponses(CacheGet(GENERATE_CACHE', key),
                                           use_cache),
                     !.attempts = 1,
                     !.history_before = History(GENERATE_CACHE, key),
                     !.prev = lastGen]]
    /\ rg' = [rg EXCEPT ![p] = RGEnter("generate", 1)]
    /\ UNCHANGED <<cls, nextItem, lastGen>>

GenerateRaiseRecording(p, r, error) ==
    /\ rg' = [rg EXCEPT ![p] = r]
    /\ gen' = [gen EXCEPT ![p].status = "raised", ![p].error = error]
    /\ lastGen' = Summary(gen'[p])
    /\ GENERATE_CACHE' =
           Record(GENERATE_CACHE, gen[p].cache_key, gen[p].result)
    /\ UNCHANGED cls

(* The Response Generator call of generate ended in an exception, or in    *)
(* None, whose len() is a TypeError: the exception leaves generate_async   *)
(* before lines 530-532.                                                   *)
GenerateRaise(p, r, error) ==
    /\ rg' = [rg EXCEPT ![p] = r]
    /\ gen' = [gen EXCEPT ![p].status = "raised", ![p].error = error]
    /\ lastGen' = Summary(gen'[p])
    /\ UNCHANGED <<cls, GENERATE_CACHE>>

(* Lines 525-533 after a Response Generator call returned a list.          *)
GenerateResume(p, r) ==
    LET g == gen[p]
        result == Truncate(r.result.payload, g.n)
    IN  IF GenerateLoopGuard(result, g.n)
        THEN /\ rg' = [rg EXCEPT ![p] = RGEnter("generate", 1)]
             /\ gen' = [gen EXCEPT ![p].attempts = Min(@ + 1, MaxAttempts),
                                   ![p].raw = r.result.payload,
                                   ![p].result = result]
             /\ UNCHANGED <<cls, GENERATE_CACHE, lastGen>>
        ELSE /\ rg' = [rg EXCEPT ![p] = r]
             /\ gen' = [gen EXCEPT ![p].status = "returned",
                                   ![p].raw = r.result.payload,
                                   ![p].result = result]
             /\ GENERATE_CACHE' =
                    IF g.use_cache
                    THEN Record(GENERATE_CACHE, g.cache_key, result)
                    ELSE GENERATE_CACHE
             /\ lastGen' = Summary(gen'[p])
             /\ UNCHANGED cls

(* One turn of generate's Response Generator call and, when that call      *)
(* ends, the rest of generate up to its next await or its end.             *)
GenerateTurn(p, failed, tool_calls) ==
    /\ gen[p].status = "awaiting"
    /\ UNCHANGED <<contract_vars, call_vars>>
    /\ rg[p].status = "running"
    /\ rg[p].caller = "generate"
    /\ nextItem' = nextItem + ItemsOf(tool_calls)
    /\ UNCHANGED calls
    /\ LET r == RGIterate(rg[p], failed, tool_calls)
       IN  CASE r.status = "running" ->
                   /\ rg' = [rg EXCEPT ![p] = r]
                   /\ UNCHANGED <<cls, gen, GENERATE_CACHE, lastGen>>
             [] r.status = "raised" -> GenerateRaise(p, r, r.error)
             [] r.status = "returned" /\ r.result.tag # "list" ->
                   GenerateRaise(p, r, "TypeError")
             [] r.status = "returned" /\ r.result.tag = "list" ->
                   GenerateResume(p, r)

GenerateServiceFails(p) == GenerateTurn(p, TRUE, <<>>)

(* A reply that makes generate ask again is possible while the attempts    *)
(* made stay under MaxAttempts.                                            *)
GenerateServiceReplies(p) ==
    \E tcs \in GenerateReplies(gen[p].n) :
        /\ ItemsOf(tcs) < gen[p].n /\ tcs # <<>> /\ tcs[1].ok
              => gen[p].attempts < MaxAttempts
        /\ GenerateTurn(p, FALSE, tcs)

(* The Model Service yields a final answer of len fresh items.  A final    *)
(* answer with no item at all holds fewer items than any n asked for:      *)
(* generate asks again, as often as this happens.                          *)
GenerateYields(p, len) ==
    GenerateTurn(p, FALSE,
                 <<ToolCall(return_tool_name, TRUE, List(FreshItems(len)))>>)

----------------------------------------------------------------------------
(* The process-wide toggle marvin.settings.ai.text.disable_contract, and   *)
(* temporary_settings, which sets it for the length of a with block.       *)

(* Entering `with temporary_settings(ai__text__disable_contract=value)`:   *)
(* the setting found is saved and the value is set.                        *)
temporary_settings(saved, current, value) ==
    [saved |-> Append(saved, current), setting |-> value]

(* Leaving that block, by return or by exception: the saved setting is     *)
(* put back.                                                               *)
restore_settings(saved, current) ==
    IF saved = <<>> THEN [saved |-> saved, setting |-> current]
    ELSE [saved |-> SubSeq(saved, 1, Len(saved) - 1),
          setting |-> saved[Len(saved)]]

LeaveInnermostOnly(saved, current) == restore_settings(saved, current).setting

(* A return or an exception leaves every with block the call is in, the    *)
(* innermost first; the result is the setting it leaves behind.            *)
RECURSIVE LeaveWithBlocks(_, _)
LeaveWithBlocks(saved, current) ==
    IF saved = <<>> THEN current
    ELSE LET left == restore_settings(saved, current)
         IN  LeaveWithBlocks(left.saved, left.setting)

----------------------------------------------------------------------------
(* The Matcher: match_async.                                               *)

MaxTerms == 2

Templates == {"x", "An Integer", "None of the above", "{a} {b}", "{a}{a}"}

(* The characters of a template: a brace is one element, and so is a run   *)
(* of other characters.                                                    *)
TemplateText(template) ==
    CASE template = "{a} {b}" -> <<"{", "a", "}", " ", "{", "b", "}">>
      [] template = "{a}{a}" -> <<"{", "a", "}", "{", "a", "}">>
      [] OTHER -> <<template>>

(* Line 1314, re.findall of the pattern of line 1313 (an opening brace, a  *)
(* group of characters other than a closing brace, a closing brace):       *)
(* scanning from the left, an opening brace that has a closing brace after *)
(* it yields what stands between it and the first such closing brace, and  *)
(* the scan goes on after that one.                                        *)
RECURSIVE FindAllFrom(_, _)
FindAllFrom(text, i) ==
    IF i > Len(text) THEN <<>>
    ELSE LET closing == {j \in (i + 1)..Len(text) : text[j] = "}"}
             j == CHOOSE c \in closing : \A d \in closing : c <= d
         IN  IF text[i] = "{" /\ closing # {}
             THEN <<SubSeq(text, i + 1, j - 1)>> \o FindAllFrom(text, j + 1)
             ELSE FindAllFrom(text, i + 1)

match_groups(template) == FindAllFrom(TemplateText(template), 1)

(* Lines 1316-1319: MatchedResult has one field per name of match_groups   *)
(* (a dict comprehension: a name that occurs twice is one field), each of  *)
(* type Any with the default None.                                         *)
MatchedResultFields(template) ==
    LET groups == match_groups(template)
    IN  {groups[i] : i \in DOMAIN groups}

Obj(entries) == [tag |-> "obj", payload |-> <<entries>>]

(* A MatchedResult built from a final answer that gives the fields of      *)
(* given and no others: a field not given has its default.                 *)
MatchedResult(template, given) ==
    Obj({DictEntry(name, IF name \in given THEN Scalar(1) ELSE None) :
            name \in MatchedResultFields(template)})

ModelDictOmittingNone(result) == {e \in result.payload[1] : e.value # None}

(* Line 1331, matched_result.dict(): every field of the model with its     *)
(* value.                                                                  *)
ModelDict(result) == result.payload[1]

(* A discriminator: a text template (kind "str"), a type (kind "type") or  *)
(* any other object (kind "other").                                        *)
MatchTerm(kind, name) == [kind |-> kind, name |-> name]

MatchTermInputs ==
    {MatchTerm("str", t) : t \in Templates}
    \cup {MatchTerm("type", "int"), MatchTerm("type", "float"),
          MatchTerm("other", "42")}

MatchTermLists == UNION {[1..k -> MatchTermInputs] : k \in 1..MaxTerms}

(* Lines 1354-1379: the types that get a label.  The types of the inputs   *)
(* are int, which is one of them, and float, which is not.                 *)
TypeLabels ==
    [int |-> "An Integer", str |-> "A String", dict |-> "A Dictionary",
     list |-> "A list"]

IsSupportedLenient(term) == TRUE

(* The terms for which the loop of lines 1311-1402 does not raise.         *)
IsSupported(term) ==
    \/ term.kind = "str"
    \/ term.kind = "type" /\ term.name \in DOMAIN TypeLabels

(* The ValueError of line 1379 or of line 1402.                            *)
MatchTermError(term) ==
    IF term.kind = "type" THEN "ValueError: Unrecognized type"
    ELSE "ValueError: Match Term must be either a string or a type"

UnrecognizedMatchTerm ==
    {MatchTermError(MatchTerm(k, "")) : k \in {"type", "other"}}

TermLabel(term) ==
    IF term.kind = "type" /\ term.name \in DOMAIN TypeLabels
    THEN TypeLabels[term.name] ELSE term.name

fall_through_label == "None of the above"

(* match_labels and continuations as the setup loop leaves them: one per   *)
(* term, in the order supplied, and a last one for fall_through.  A        *)
(* continuation holds the position of the handler it invokes.              *)
MatchLabels(match_terms, fall_through) ==
    [i \in 1..Len(match_terms) |-> TermLabel(match_terms[i])]
    \o (IF fall_through THEN <<fall_through_label>> ELSE <<>>)

Continuations(match_terms, fall_through) ==
    [i \in 1..Len(match_terms) |->
        [kind |-> match_terms[i].kind, handler |-> i]]
    \o (IF fall_through
        THEN <<[kind |-> "fall_through", handler |-> Len(match_terms) + 1]>>
        ELSE <<>>)

(* match_labels.index(label): the 0-based position of the first element    *)
(* equal to label.                                                         *)
ListIndex(seq, x) ==
    (CHOOSE i \in 1..Len(seq) :
        seq[i] = x /\ \A j \in 1..(i - 1) : seq[j] # x) - 1

(* What the model observes of the toggle at a step of match.               *)
Seen(step, setting) == [step |-> step, setting |-> setting]

MtIdle ==
    [status |-> "idle", match_terms |-> <<>>, fall_through |-> FALSE,
     contract_setting |-> FALSE, saved |-> <<>>, match_labels |-> <<>>,
     classify_calls |-> 0, label_index |-> -1, invoked |-> <<>>,
     arguments |-> [positional |-> <<>>, keywords |-> {}],
     seen |-> <<>>, error |-> "none"]

(* The arguments a continuation hands to its handler: lines 1337 and 1339  *)
(* (the fields of the extraction as keywords), 1396 and 1398 (the cast     *)
(* value, positionally), 1409 and 1411 (none).                             *)
HandlerArguments(kind, result) ==
    IF kind = "str"
    THEN [positional |-> <<>>, keywords |-> ModelDict(result)]
    ELSE IF kind = "type"
    THEN [positional |-> <<result>>, keywords |-> {}]
    ELSE [positional |-> <<>>, keywords |-> {}]

(* The value the with blocks of lines 1333, 1392 and 1407 set.             *)
HandlerSettingForced(contract_setting) == TRUE

HandlerSetting(contract_setting) == contract_setting

InvokeHandlerTwice(m, current, handler) ==
    LET entered == temporary_settings(m.saved, current,
                                      HandlerSetting(m.contract_setting))
    IN  [mt |-> [m EXCEPT !.status = "handler", !.saved = entered.saved,
                          !.invoked = Append(Append(@, handler), handler),
                          !.seen = Append(@, Seen("handler", entered.setting))],
         setting |-> entered.setting]

(* Lines 1333-1339, 1392-1398 and 1407-1411: the toggle is set to the      *)
(* value found at entry and the handler is invoked.                        *)
InvokeHandler(m, current, handler) ==
    LET entered == temporary_settings(m.saved, current,
                                      HandlerSetting(m.contract_setting))
    IN  [mt |-> [m EXCEPT !.status = "handler", !.saved = entered.saved,
                          !.invoked = Append(@, handler),
                          !.seen = Append(@, Seen("handler", entered.setting))],
         setting |-> entered.setting]

(* An exception leaves match_async.                                        *)
MatchRaise(m, current, error) ==
    [mt |-> [m EXCEPT !.status = "raised", !.error = error, !.saved = <<>>],
     setting |-> LeaveWithBlocks(m.saved, current)]

(* Lines 1305-1432, up to the await of classify_async.                     *)
MatchCall(p, match_terms, fall_through) ==
    /\ mt[p].status = "idle"
    /\ LET entered == temporary_settings(<<>>, disable_contract, TRUE)
           unsupported == {i \in 1..Len(match_terms) :
                              ~IsSupported(match_terms[i])}
           first == CHOOSE i \in unsupported : \A j \in unsupported : i <= j
           labels == MatchLabels(match_terms, fall_through)
           m == [MtIdle EXCEPT !.match_terms = match_terms,
                               !.fall_through = fall_through,
                               !.contract_setting = disable_contract,
                               !.saved = entered.saved,
                               !.seen = <<Seen("labels", entered.setting)>>]
       IN  IF unsupported # {}
           THEN LET out == MatchRaise(m, entered.setting,
                                      MatchTermError(match_terms[first]))
                IN  /\ mt' = [mt EXCEPT ![p] = out.mt]
                    /\ disable_contract' = out.setting
                    /\ cls' = [cls EXCEPT ![p] = ClsIdle]
           ELSE /\ mt' = [mt EXCEPT ![p] =
                            [m EXCEPT !.status = "classifying",
                                      !.match_labels = labels,
                                      !.classify_calls = 1,
                                      !.seen = Append(@, Seen("classify",
                                                          entered.setting))]]
                /\ disable_contract' = entered.setting
                /\ cls' = [cls EXCEPT ![p] = ClsEnter(Labels("list", labels))]
    /\ rg' = [rg EXCEPT ![p] = RGIdle]
    /\ UNCHANGED <<gen, GENERATE_CACHE, nextItem, calls, lastGen,
                   call_vars, fc, cst>>

(* Lines 1426-1436 and the continuation up to its await, or up to the      *)
(* call of fall_through.                                                   *)
MatchClassified(p, failed, numeric, label_index) ==
    /\ mt[p].status = "classifying"
    /\ LET m == mt[p]
           c == IF failed
                THEN [cls[p] EXCEPT !.status = "raised",
                                    !.error = "TransportError"]
                ELSE ClsDecode(cls[p], numeric, label_index)
           index == ListIndex(m.match_labels, c.result.v)
           continuation ==
               Continuations(m.match_terms, m.fall_through)[index + 1]
           chosen == [m EXCEPT !.label_index = index]
       IN  /\ cls' = [cls EXCEPT ![p] = c]
           /\ IF c.status = "raised"
              THEN LET out == MatchRaise(m, disable_contract, c.error)
                   IN  /\ mt' = [mt EXCEPT ![p] = out.mt]
                       /\ disable_contract' = out.setting
                       /\ UNCHANGED rg
              ELSE IF continuation.kind = "fall_through"
              THEN LET out == InvokeHandler(chosen, disable_contract,
                                            continuation.handler)
                   IN  /\ mt' = [mt EXCEPT ![p] = out.mt]
                       /\ disable_contract' = out.setting
                       /\ UNCHANGED rg
              ELSE /\ mt' = [mt EXCEPT ![p] =
                               [chosen EXCEPT
                                   !.status = "materializing",
                                   !.seen = Append(@, Seen("materialize",
                                                       disable_contract))]]
                   /\ rg' = [rg EXCEPT ![p] = RGEnter("match", 1)]
                   /\ UNCHANGED disable_contract
    /\ UNCHANGED <<gen, GENERATE_CACHE, nextItem, calls, lastGen,
                   call_vars, fc, cst>>

MatchClassifyFails(p) == MatchClassified(p, TRUE, FALSE, 0)

(* The content of the reply is a number, in or out of range, or not one.   *)
MatchClassifyReplies(p) ==
    \/ \E i \in 0..MaxIndex : MatchClassified(p, FALSE, TRUE, i)
    \/ \E i \in (-MaxIndex)..(-1) : MatchClassified(p, FALSE, TRUE, i)
    \/ MatchClassified(p, FALSE, FALSE, 0)

(* The replies to the extraction or cast call of a continuation.           *)
MatchReplies ==
    {<<>>, <<ToolCall(return_tool_name, TRUE, Scalar(1))>>,
     <<ToolCall(return_tool_name, FALSE, None)>>}

(* Lines 1323-1339 and 1389-1398: the Response Generator call of the       *)
(* continuation ends.  A template's continuation calls .dict() on the      *)
(* result, which None does not have; a type's continuation passes the      *)
(* result on as it is.                                                     *)
MatchMaterialized(p, failed, tool_calls) ==
    /\ mt[p].status = "materializing"
    /\ rg[p].status = "running"
    /\ rg[p].caller = "match"
    /\ LET m == mt[p]
           r == RGIterate(rg[p], failed, tool_calls)
           continuation ==
               Continuations(m.match_terms, m.fall_through)[m.label_index + 1]
           out == IF r.status = "raised"
                  THEN MatchRaise(m, disable_contract, r.error)
                  ELSE IF continuation.kind = "str" /\ r.result = None
                  THEN MatchRaise(m, disable_contract, "AttributeError")
                  ELSE InvokeHandler(
                           [m EXCEPT !.arguments =
                               HandlerArguments(continuation.kind, r.result)],
                           disable_contract, continuation.handler)
       IN  /\ rg' = [rg EXCEPT ![p] = r]
           /\ IF r.status = "running"
              THEN UNCHANGED <<mt, disable_contract>>
              ELSE /\ mt' = [mt EXCEPT ![p] = out.mt]
                   /\ disable_contract' = out.setting
    /\ UNCHANGED <<cls, gen, GENERATE_CACHE, nextItem, calls, lastGen,
                   call_vars, fc, cst>>

MatchServiceFails(p) == MatchMaterialized(p, TRUE, <<>>)

(* The replies to the extraction call of a template's continuation: no    *)
(* tool call, a final answer that fails validation, or a final answer      *)
(* that gives some of the fields of MatchedResult.                         *)
ExtractReplies(template) ==
    {<<>>, <<ToolCall(return_tool_name, FALSE, None)>>}
    \cup {<<ToolCall(return_tool_name, TRUE, MatchedResult(template, given))>> :
             given \in SUBSET MatchedResultFields(template)}

MatchServiceReplies(p) ==
    LET m == mt[p]
        term == m.match_terms[m.label_index + 1]
    IN  /\ mt[p].status = "materializing"
        /\ \E tcs \in (IF term.kind = "str" THEN ExtractReplies(term.name)
                        ELSE MatchReplies) :
               MatchMaterialized(p, FALSE, tcs)

(* The handler returns or raises, and match_async ends with it.            *)
MatchHandlerEnds(p, raises) ==
    /\ mt[p].status = "handler"
    /\ mt' = [mt EXCEPT ![p].status = IF raises THEN "raised" ELSE "returned",
                        ![p].error = IF raises THEN "HandlerError" ELSE "none",
                        ![p].saved = <<>>]
    /\ disable_contract' = LeaveWithBlocks(mt[p].saved, disable_contract)
    /\ UNCHANGED <<rg, cls, gen, GENERATE_CACHE, nextItem, calls, lastGen,
                   call_vars,
                   fc, cst>>

MatchHandlerReturns(p) == MatchHandlerEnds(p, FALSE)

MatchHandlerRaises(p) == MatchHandlerEnds(p, TRUE)

(* The caller has the result or the exception of a match call that ended   *)
(* and goes on; its next call starts from what the call left behind.       *)
MatchDone(p) ==
    /\ mt[p].status \in {"returned", "raised"}
    /\ mt' = [mt EXCEPT ![p] = MtIdle]
    /\ cls' = [cls EXCEPT ![p] = ClsIdle]
    /\ rg' = [rg EXCEPT ![p] = RGIdle]
    /\ UNCHANGED <<gen, GENERATE_CACHE, nextItem, calls, lastGen, call_vars,
                   disable_contract, fc, cst>>

----------------------------------------------------------------------------
(* The Contract Validator: func_contract and its wrapper.                  *)

(* The exceptions of lines 1494 and 1509.                                  *)
PreconditionViolation == "ValueError: Pre condition not met"
PostconditionViolation == "ValueError: Post Condition Not Met"

(* A call of a wrapped operation.  pre, post and validate_return are the   *)
(* arguments of func_contract; post_shares says that post declares a       *)
(* parameter the operation has too; args_ok says that the arguments pass   *)
(* the structural validation of validate_call.                             *)
FcIdle ==
    [pc |-> "idle", disabled |-> FALSE, pre |-> FALSE, post |-> FALSE,
     post_shares |-> FALSE, validate_return |-> FALSE, args_ok |-> TRUE,
     pre_value |-> "none", post_value |-> "none", events |-> <<>>,
     form |-> "direct", requested |-> FALSE,
     invoked |-> 0, returned |-> 0, error |-> "none"]

FcRaise(c, error) == [c EXCEPT !.pc = "raised", !.error = error]

InnerFuncSkipped(c) ==
    IF c.post /\ ~c.post_shares
    THEN [c EXCEPT !.pc = "in_post", !.events = Append(@, "post")]
    ELSE [c EXCEPT !.pc = "returned"]

(* Line 1496 up to the call of func: inner_func is validate_call(func),    *)
(* which validates the arguments and then calls func.                      *)
InnerFunc(c) ==
    LET validated == [c EXCEPT !.events = Append(@, "validate_args")]
    IN  IF ~c.args_ok THEN FcRaise(validated, "ValidationError")
        ELSE [validated EXCEPT !.pc = "in_func",
                               !.events = Append(@, "func"),
                               !.invoked = @ + 1]

(* Lines 1474-1475: return func(...), the unwrapped func.                 *)
UnvalidatedCall(c) ==
    [c EXCEPT !.pc = "in_func", !.events = Append(@, "func"),
              !.invoked = @ + 1]

PreconditionIgnored(condition) == TRUE

(* if not condition: raise ValueError("Pre condition not met") *)
PreconditionHolds(condition) == condition

(* Lines 1473-1496, up to the first call of pre or of func.                *)
FcEnter(disabled, pre, post, post_shares, validate_return, args_ok) ==
    LET c == [FcIdle EXCEPT !.disabled = disabled, !.pre = pre,
                            !.post = post, !.post_shares = post_shares,
                            !.validate_return = validate_return,
                            !.args_ok = args_ok]
    IN  IF disabled THEN UnvalidatedCall(c)
        ELSE IF pre
        THEN [c EXCEPT !.pc = "in_pre", !.events = Append(@, "pre")]
        ELSE InnerFunc(c)

(* Lines 1492-1496: pre returned condition, or raised.                     *)
FcAfterPre(c, raises, condition) ==
    LET got == [c EXCEPT !.pre_value =
                    IF raises THEN "raised"
                    ELSE IF condition THEN "true" ELSE "false"]
    IN  IF raises THEN FcRaise(got, "PreError")
        ELSE IF ~PreconditionHolds(condition)
        THEN FcRaise(got, PreconditionViolation)
        ELSE InnerFunc(got)

(* Lines 1496-1510 and 1475: func returned or raised.  ret_ok says that    *)
(* the value returned passes the structural validation of the return       *)
(* annotation.  post_dict is keyed by Parameter objects (line 1506), which *)
(* are no keys of all_arguments: a post that shares a parameter with the   *)
(* operation ends in a KeyError before it is called.                       *)
FcAfterFunc(c, raises, ret_ok) ==
    LET back == [c EXCEPT !.events = Append(@, "func_returned"),
                          !.returned = @ + 1]
        validated == IF c.validate_return
                     THEN [back EXCEPT !.events = Append(@, "validate_return")]
                     ELSE back
    IN  IF raises THEN FcRaise(c, "FuncError")
        ELSE IF c.disabled THEN [back EXCEPT !.pc = "returned"]
        ELSE IF c.validate_return /\ ~ret_ok
        THEN FcRaise(validated, "ValidationError")
        ELSE IF ~c.post THEN [validated EXCEPT !.pc = "returned"]
        ELSE IF c.post_shares THEN FcRaise(validated, "KeyError")
        ELSE [validated EXCEPT !.pc = "in_post",
                               !.events = Append(@, "post")]

(* Lines 1508-1510: post returned condition, or raised.                    *)
FcAfterPost(c, raises, condition) ==
    LET got == [c EXCEPT !.post_value =
                    IF raises THEN "raised"
                    ELSE IF condition THEN "true" ELSE "false"]
    IN  IF raises THEN FcRaise(got, "PostError")
        ELSE IF ~condition THEN FcRaise(got, PostconditionViolation)
        ELSE [got EXCEPT !.pc = "returned"]

FcRunning(c) == c.pc \in {"in_pre", "in_func", "in_post"}

ContractCall(p, pre, post, post_shares, validate_return, args_ok) ==
    /\ ~FcRunning(fc[p])
    /\ fc' = [fc EXCEPT ![p] = FcEnter(disable_contract, pre, post,
                                       post_shares, validate_return, args_ok)]
    /\ UNCHANGED <<rg, cls, gen, GENERATE_CACHE, nextItem, calls, lastGen,
                   call_vars,
                   disable_contract, mt, cst>>

(* The two ways of decorating: func_contract(f, ...) and                   *)
(* func_contract(...)(f).                                                  *)
Forms == {"direct", "factory"}

func_contract_passing_all(form, pre, post, validate_return) ==
    [pre |-> pre, post |-> post, validate_return |-> validate_return]

(* Lines 1457-1470: what the wrapper is built with.  Called without func,  *)
(* func_contract returns partial(func_contract, pre=, post=,               *)
(* model_kwargs=, client=): the call that follows with func has the        *)
(* validate_return of the signature, False.                                *)
func_contract(form, pre, post, validate_return) ==
    [pre |-> pre, post |-> post,
     validate_return |-> IF form = "factory" THEN FALSE ELSE validate_return]

(* A call of an operation decorated in one of the two forms; form and      *)
(* requested keep, for observation, how it was decorated.                  *)
DecoratedCall(p, form, pre, post, post_shares, validate_return, args_ok) ==
    /\ ~FcRunning(fc[p])
    /\ LET built == func_contract(form, pre, post, validate_return)
       IN  fc' = [fc EXCEPT ![p] =
                    [FcEnter(disable_contract, built.pre, built.post,
                             post_shares, built.validate_return, args_ok)
                     EXCEPT !.form = form, !.requested = validate_return]]
    /\ UNCHANGED <<rg, cls, gen, GENERATE_CACHE, nextItem, calls, lastGen,
                   call_vars, disable_contract, mt, cst>>

ContractPreEnds(p, raises, condition) ==
    /\ fc[p].pc = "in_pre"
    /\ fc' = [fc EXCEPT ![p] = FcAfterPre(fc[p], raises, condition)]
    /\ UNCHANGED <<rg, cls, gen, GENERATE_CACHE, nextItem, calls, lastGen,
                   call_vars,
                   disable_contract, mt, cst>>

ContractFuncEnds(p, raises, ret_ok) ==
    /\ fc[p].pc = "in_func"
    /\ fc' = [fc EXCEPT ![p] = FcAfterFunc(fc[p], raises, ret_ok)]
    /\ UNCHANGED <<rg, cls, gen, GENERATE_CACHE, nextItem, calls, lastGen,
                   call_vars,
                   disable_contract, mt, cst>>

ContractPostEnds(p, raises, condition) ==
    /\ fc[p].pc = "in_post"
    /\ fc' = [fc EXCEPT ![p] = FcAfterPost(fc[p], raises, condition)]
    /\ UNCHANGED <<rg, cls, gen, GENERATE_CACHE, nextItem, calls, lastGen,
                   call_vars,
                   disable_contract, mt, cst>>

----------------------------------------------------------------------------
(* cast_async to a record type, the validator of NaturalLangType and the   *)
(* synchronous bridge run_sync.                                            *)

(* The targets of a cast: bool, a plain record type, a NaturalLangType     *)
(* without constraints and one that declares constraints.                  *)
CastTargets == {"bool", "plain", "natural", "constrained"}

(* The final-answer tool builds the Target from the model's arguments,     *)
(* which runs the validators the Target declares.                          *)
tool_from_type_validates(target) == target \in {"natural", "constrained"}

(* Lines 1282-1287: whether check_all_natural_lang_constraints goes on to  *)
(* validate_natural_lang_constraints.                                      *)
ChecksConstraints(target, disabled) ==
    /\ tool_from_type_validates(target)
    /\ ~disabled
    /\ target = "constrained"

(* A call of run_sync, with the number of asynchronous engine operations   *)
(* in flight on the calling thread's loop when it is made.                 *)
BridgeCall(coroutine, in_flight) ==
    [coroutine |-> coroutine, in_flight |-> in_flight]

CstIdle ==
    [status |-> "idle", target |-> "plain", sync |-> FALSE,
     in_flight |-> 0, bridge_calls |-> <<>>, pending |-> <<>>,
     constraints |-> <<>>, listed |-> <<>>,
     nested |-> RGIdle, error |-> "none"]

CstRunning(c) == c.status \in {"awaiting", "validating", "blocked"}

(* The result of the constraint validation as the truth value the          *)
(* validator tests at line 1288.                                           *)
Truthy(value) == value.tag = "val" /\ value.payload # <<0>>

CastReplies ==
    {<<>>, <<ToolCall(return_tool_name, FALSE, None)>>}
    \cup {<<ToolCall(return_tool_name, TRUE, Scalar(v))>> : v \in 1..MaxValue}

ValidatorReplies ==
    {<<>>, <<ToolCall(return_tool_name, FALSE, None)>>,
     <<ToolCall(return_tool_name, TRUE, Scalar(0))>>,
     <<ToolCall(return_tool_name, TRUE, Scalar(1))>>}

(* The final-answer call of a reply whose arguments build a Target.        *)
BuildsTarget(tool_calls) ==
    \E i \in 1..Len(tool_calls) :
        tool_calls[i].name = return_tool_name /\ tool_calls[i].ok

(* The reply as _get_tool_outputs sees it once the validator returned or   *)
(* raised: a validator that raises makes the final-answer tool raise.      *)
Validated(tool_calls, passed) ==
    [i \in 1..Len(tool_calls) |->
        IF tool_calls[i].name = return_tool_name /\ ~passed
        THEN ToolCall(return_tool_name, FALSE, None)
        ELSE tool_calls[i]]

(* Lines 347-352: the targets cast_async hands to classify_async.          *)
IsLabelTarget(target) == target = "bool"

(* cast(...) is run_sync(cast_async(...)), lines 982-990; cast_async,      *)
(* lines 338-367, goes to the Classifier for a label target and to the     *)
(* Response Generator for any other.                                       *)
CastCall(p, target, sync) ==
    /\ ~CstRunning(cst[p])
    /\ cst' = [cst EXCEPT ![p] =
                 [CstIdle EXCEPT
                     !.status = "awaiting", !.target = target,
                     !.sync = sync, !.in_flight = 1,
                     !.bridge_calls =
                         IF sync THEN <<BridgeCall("cast_async", 0)>>
                         ELSE <<>>]]
    /\ IF IsLabelTarget(target)
       THEN /\ cls' = [cls EXCEPT ![p] = ClsEnter(Labels("bool", <<>>))]
            /\ rg' = [rg EXCEPT ![p] = RGIdle]
       ELSE /\ rg' = [rg EXCEPT ![p] = RGEnter("cast", 1)]
            /\ cls' = [cls EXCEPT ![p] = ClsIdle]
    /\ UNCHANGED <<gen, GENERATE_CACHE, nextItem, calls, lastGen, call_vars,
                   disable_contract, mt, fc>>

(* The Classifier call of a cast to a label target ends.                   *)
CastClassified(p, failed, numeric, label_index) ==
    /\ cst[p].status = "awaiting"
    /\ cls[p].status = "waiting"
    /\ LET c == IF failed
                THEN [cls[p] EXCEPT !.status = "raised",
                                    !.error = "TransportError"]
                ELSE ClsDecode(cls[p], numeric, label_index)
       IN  /\ cls' = [cls EXCEPT ![p] = c]
           /\ cst' = [cst EXCEPT ![p].status = c.status,
                                 ![p].error = c.error,
                                 ![p].in_flight = 0]
    /\ UNCHANGED <<rg, gen, GENERATE_CACHE, nextItem, calls, lastGen, call_vars,
                   disable_contract, mt, fc>>

CastClassifyFails(p) == CastClassified(p, TRUE, FALSE, 0)

CastClassifyReplies(p) ==
    \/ \E i \in (-MaxIndex)..MaxIndex : CastClassified(p, FALSE, TRUE, i)
    \/ CastClassified(p, FALSE, FALSE, 0)

CastEnds(c, r) ==
    [c EXCEPT !.status = r.status, !.error = r.error, !.in_flight = 0,
              !.pending = <<>>]

(* The Model Service answers the cast.  When building the Target runs the  *)
(* constraint validator, the validator calls the synchronous               *)
(* validate_natural_lang_constraints, lines 719-729, which hands           *)
(* validate_natural_lang_constraints_async to run_sync.                    *)
CastTurn(p, failed, tool_calls) ==
    /\ cst[p].status = "awaiting"
    /\ rg[p].status = "running"
    /\ rg[p].caller = "cast"
    /\ IF ~failed /\ BuildsTarget(tool_calls)
          /\ ChecksConstraints(cst[p].target, disable_contract)
       THEN /\ cst' = [cst EXCEPT
                         ![p].status = "validating",
                         ![p].pending = tool_calls,
                         ![p].bridge_calls =
                             Append(@, BridgeCall("validate_async",
                                                  cst[p].in_flight)),
                         ![p].nested = RGEnter("validator", 1)]
            /\ UNCHANGED rg
       ELSE LET r == RGIterate(rg[p], failed, tool_calls)
            IN  /\ rg' = [rg EXCEPT ![p] = r]
                /\ cst' = [cst EXCEPT ![p] =
                             IF r.status = "running" THEN cst[p]
                             ELSE CastEnds(cst[p], r)]
    /\ UNCHANGED <<cls, gen, GENERATE_CACHE, nextItem, calls, lastGen,
                   call_vars,
                   disable_contract, mt, fc>>

CastServiceFails(p) == CastTurn(p, TRUE, <<>>)

CastServiceReplies(p) == \E tcs \in CastReplies : CastTurn(p, FALSE, tcs)

(* The bridged validation runs to its end (lines 705-716 and 1288-1295),   *)
(* the validator returns or raises, and the turn of the cast goes on from  *)
(* line 142.                                                               *)
ValidatorTurn(p, failed, tool_calls) ==
    /\ cst[p].status = "validating"
    /\ LET n == RGIterate(cst[p].nested, failed, tool_calls)
           passed == n.status = "returned" /\ Truthy(n.result)
           r == RGIterate(rg[p], FALSE, Validated(cst[p].pending, passed))
       IN  IF n.status = "running"
           THEN /\ cst' = [cst EXCEPT ![p].nested = n]
                /\ UNCHANGED rg
           ELSE /\ rg' = [rg EXCEPT ![p] = r]
                /\ cst' = [cst EXCEPT ![p] =
                             [CastEnds(cst[p], r) EXCEPT !.nested = n]]
    /\ UNCHANGED <<cls, gen, GENERATE_CACHE, nextItem, calls, lastGen,
                   call_vars,
                   disable_contract, mt, fc>>

ValidatorServiceFails(p) == ValidatorTurn(p, TRUE, <<>>)

ValidatorServiceReplies(p) ==
    \E tcs \in ValidatorReplies : ValidatorTurn(p, FALSE, tcs)

(* run_sync inside a running loop may never come back: the bridge blocks   *)
(* the thread whose loop would have to run the bridged coroutine.          *)
BridgeBlocks(p) ==
    /\ cst[p].status = "validating"
    /\ cst' = [cst EXCEPT ![p].status = "blocked"]
    /\ UNCHANGED <<rg, cls, gen, GENERATE_CACHE, nextItem, calls, lastGen,
                   call_vars,
                   disable_contract, mt, fc>>

----------------------------------------------------------------------------
(* Constructing an instance of a NaturalLangType subclass from             *)
(* synchronous code, T(...).                                               *)

MaxChain == 3

ConstraintTexts == {"c1", "c2"}

(* A class chain, base first: what each class adds in its override of      *)
(* natural_lang_constraints, nothing or one constraint.                    *)
ClassChains ==
    UNION {[1..k -> {<<>>} \cup {<<c>> : c \in ConstraintTexts}] :
              k \in 0..MaxChain}

(* Lines 1268-1279 and natural_lang_types.py 73-79: the base class returns *)
(* [] and each override returns existing + new_constraints.                *)
RECURSIVE natural_lang_constraints(_)
natural_lang_constraints(chain) ==
    IF chain = <<>> THEN <<>>
    ELSE natural_lang_constraints(SubSeq(chain, 1, Len(chain) - 1))
         \o chain[Len(chain)]

(* The errors of a construction: a field that fails structural validation, *)
(* and the ValueError of lines 1291-1295 as pydantic reports it.           *)
StructuralError == "ValidationError"

ConstraintsNotMet == "ValidationError: Natural language constraints not met"

(* Lines 1283-1287: the validator returns self without a request.          *)
SkipsValidationIgnoringToggle(disabled, constraints) == constraints = <<>>

SkipsValidation(disabled, constraints) == disabled \/ constraints = <<>>

(* T(...) up to the request of the constraint validation: the fields are   *)
(* validated first and the validator runs after them (mode="after").       *)
Construct(p, chain, fields_ok) ==
    /\ ~CstRunning(cst[p])
    /\ cst[p].status # "constructing"
    /\ LET constraints == natural_lang_constraints(chain)
           c == [CstIdle EXCEPT !.target = "constrained", !.sync = TRUE,
                                !.constraints = constraints]
       IN  cst' = [cst EXCEPT ![p] =
                     IF ~fields_ok
                     THEN [c EXCEPT !.status = "raised",
                                    !.error = StructuralError]
                     ELSE IF SkipsValidation(disable_contract, constraints)
                     THEN [c EXCEPT !.status = "returned"]
                     ELSE [c EXCEPT
                              !.status = "constructing",
                              !.bridge_calls =
                                  <<BridgeCall("validate_async", 0)>>,
                              !.nested = RGEnter("validator", 1)]]
    /\ UNCHANGED <<rg, cls, gen, GENERATE_CACHE, nextItem, calls, lastGen,
                   call_vars, disable_contract, mt, fc>>

(* Lines 705-716 and 1288-1295: the validation request is answered and     *)
(* the validator returns self or raises.                                   *)
ConstructValidated(p, failed, tool_calls) ==
    /\ cst[p].status = "constructing"
    /\ LET n == RGIterate(cst[p].nested, failed, tool_calls)
           c == [cst[p] EXCEPT !.nested = n]
       IN  cst' = [cst EXCEPT ![p] =
                     IF n.status = "running" THEN c
                     ELSE IF n.status = "raised"
                     THEN [c EXCEPT !.status = "raised", !.error = n.error]
                     ELSE IF Truthy(n.result)
                     THEN [c EXCEPT !.status = "returned"]
                     ELSE [c EXCEPT !.status = "raised",
                                    !.error = ConstraintsNotMet,
                                    !.listed = c.constraints]]
    /\ UNCHANGED <<rg, cls, gen, GENERATE_CACHE, nextItem, calls, lastGen,
                   call_vars, disable_contract, mt, fc>>

ConstructServiceFails(p) == ConstructValidated(p, TRUE, <<>>)

ConstructServiceReplies(p) ==
    \E tcs \in ValidatorReplies : ConstructValidated(p, FALSE, tcs)

----------------------------------------------------------------------------
(* The map variants classify_async_map and cast_async_map, and map_async   *)
(* (marvin.utilities.mapping), which runs one call per element of data.    *)

MaxData == 2

DataItems == {"x", "y"}

DataInputs == UNION {[1..n -> DataItems] : n \in 0..MaxData}

MapVariants == {"classify_async_map", "cast_async_map"}

(* The labels of the per-element call: classify_async gets the labels of   *)
(* the caller (line 1131); cast_async with a label target, here bool, goes *)
(* to classify_async with that target as labels (lines 347-352).           *)
ElementLabels(variant, labels) ==
    IF variant = "classify_async_map" THEN labels ELSE Labels("bool", <<>>)

(* map_kwargs=dict(data=data), lines 1129 and 1166: the call of element i  *)
(* gets data[i]; every other argument is the same for all elements.        *)
Element(input) == [input |-> input, call |-> ClsIdle]

MapKwargs(data) == [i \in 1..Len(data) |-> Element(data[i])]

MapOutputReversed(results) == Reverse(results)

(* `return await map_async(...)`, lines 1127 and 1164: the list map_async  *)
(* gathered is returned as it is.                                          *)
MapOutput(results) == results

MpIdle ==
    [status |-> "idle", variant |-> "none", labels |-> Labels("bool", <<>>),
     data |-> <<>>, limit |-> 0, elems |-> <<>>, completed |-> <<>>,
     output |-> <<>>, error |-> "none"]

(* The elements whose call has started and has not ended.                  *)
InFlight(m) == {i \in 1..Len(m.elems) : m.elems[i].call.status = "waiting"}

(* map_async admits a call while fewer than the concurrency limit are in   *)
(* flight.                                                                 *)
MayStart(m, i) ==
    /\ m.elems[i].call.status = "idle"
    /\ Cardinality(InFlight(m)) < m.limit

(* map_async gathers the results by the position of their inputs; an       *)
(* element that raises ends the map with its exception.                    *)
Gather(m) ==
    IF \E i \in 1..Len(m.elems) : m.elems[i].call.status = "raised"
    THEN LET i == CHOOSE j \in 1..Len(m.elems) :
                      m.elems[j].call.status = "raised"
         IN  [m EXCEPT !.status = "raised", !.error = m.elems[i].call.error]
    ELSE IF \A i \in 1..Len(m.elems) : m.elems[i].call.status = "returned"
    THEN [m EXCEPT !.status = "returned",
                   !.output = MapOutput([i \in 1..Len(m.elems) |->
                                            m.elems[i].call.result])]
    ELSE m

(* classify_async_map or cast_async_map is called with a list of inputs.   *)
MapCall(variant, data, labels, limit) ==
    /\ mp.status = "idle"
    /\ mp' = Gather([MpIdle EXCEPT !.status = "running", !.variant = variant,
                                   !.labels = ElementLabels(variant, labels),
                                   !.data = data, !.limit = limit,
                                   !.elems = MapKwargs(data)])
    /\ UNCHANGED <<rg, cls, gen, GENERATE_CACHE, nextItem, calls, lastGen,
                   contract_vars, kw>>

(* The call of element i starts: classify_async up to its request.         *)
MapElementStarts(i) ==
    /\ mp.status = "running"
    /\ i \in 1..Len(mp.elems)
    /\ MayStart(mp, i)
    /\ mp' = [mp EXCEPT !.elems[i].call = ClsEnter(mp.labels)]
    /\ UNCHANGED <<rg, cls, gen, GENERATE_CACHE, nextItem, calls, lastGen,
                   contract_vars, kw>>

(* The Model Service answers the call of element i, which decodes the      *)
(* reply; the map ends with the last answer or with the first exception.   *)
MapElementEnds(i, failed, numeric, label_index) ==
    /\ mp.status = "running"
    /\ i \in InFlight(mp)
    /\ LET c == IF failed
                THEN [mp.elems[i].call EXCEPT !.status = "raised",
                                              !.error = "TransportError"]
                ELSE ClsDecode(mp.elems[i].call, numeric, label_index)
       IN  mp' = Gather([mp EXCEPT !.elems[i].call = c,
                                   !.completed = Append(@, i)])
    /\ UNCHANGED <<rg, cls, gen, GENERATE_CACHE, nextItem, calls, lastGen,
                   contract_vars, kw>>

MapElementReplies(i) ==
    \/ \E idx \in 0..MaxIndex : MapElementEnds(i, FALSE, TRUE, idx)
    \/ MapElementEnds(i, FALSE, FALSE, 0)

MapElementFails(i) == MapElementEnds(i, TRUE, FALSE, 0)

----------------------------------------------------------------------------
(* Specifications.                                                         *)

InitIdle ==
    /\ rg = [p \in Procs |-> RGIdle]
    /\ cls = [p \in Procs |-> ClsIdle]
    /\ gen = [p \in Procs |-> GenIdle]
    /\ nextItem = GenerateCacheMaxSize + 1
    /\ calls = 0
    /\ lastGen = NoCall
    /\ disable_contract = FALSE
    /\ mt = [p \in Procs |-> MtIdle]
    /\ fc = [p \in Procs |-> FcIdle]
    /\ cst = [p \in Procs |-> CstIdle]
    /\ kw = KwIdle
    /\ mp = MpIdle

InitRG == InitIdle /\ GENERATE_CACHE = <<>>

NextRG ==
    \E p \in {Caller} :
        \/ \E N \in 1..MaxBudget : RGCall(p, N)
        \/ RGServiceFails(p)
        \/ RGServiceReplies(p)

SpecRG == InitRG /\ [][NextRG]_vars

NextClassify ==
    \E p \in {Caller} :
        \/ \E labels \in LabelInputs : ClassifyCall(p, labels)
        \/ ClassifyReplyNumber(p)
        \/ ClassifyReplyOther(p)
        \/ ClassifyServiceFails(p)

SpecClassify == InitRG /\ [][NextClassify]_vars

NextAIEnum ==
    \E p \in {Caller} :
        \/ \E members \in AIEnumInputs : AIEnumMissing(p, members)
        \/ AIEnumReplyNumber(p)
        \/ AIEnumReplyOther(p)
        \/ AIEnumServiceFails(p)

SpecAIEnum == InitRG /\ [][NextAIEnum]_vars

(* A cache that GenerateCacheMaxSize caching calls of generate with keys   *)
(* 1, 2, ... and n = 1 have filled: the call with key i recorded item i.   *)
FullCache == [i \in 1..GenerateCacheMaxSize |-> Entry(i, <<i>>)]

InitGenerate == InitIdle /\ GENERATE_CACHE = <<>>

InitGenerateFull == InitIdle /\ GENERATE_CACHE = FullCache

NextGenerate ==
    \E p \in {Caller} :
        \/ \E key \in CallKeys, n \in GenerateCounts, use_cache \in BOOLEAN :
              GenerateCall(p, key, n, use_cache)
        \/ GenerateServiceFails(p)
        \/ GenerateServiceReplies(p)

SpecGenerate == InitGenerate /\ [][NextGenerate]_vars

SpecGenerateFull == InitGenerateFull /\ [][NextGenerate]_vars

(* The specifications of match, func_contract and cast start with the      *)
(* toggle in either position.                                              *)
InitToggle ==
    /\ rg = [p \in Procs |-> RGIdle]
    /\ cls = [p \in Procs |-> ClsIdle]
    /\ gen = [p \in Procs |-> GenIdle]
    /\ GENERATE_CACHE = <<>>
    /\ nextItem = GenerateCacheMaxSize + 1
    /\ calls = 0
    /\ lastGen = NoCall
    /\ disable_contract \in BOOLEAN
    /\ mt = [p \in Procs |-> MtIdle]
    /\ fc = [p \in Procs |-> FcIdle]
    /\ cst = [p \in Procs |-> CstIdle]
    /\ kw = KwIdle
    /\ mp = MpIdle

NextMatch ==
    \E p \in {Caller} :
        \/ \E match_terms \in MatchTermLists, fall_through \in BOOLEAN :
              MatchCall(p, match_terms, fall_through)
        \/ MatchClassifyFails(p)
        \/ MatchClassifyReplies(p)
        \/ MatchServiceFails(p)
        \/ MatchServiceReplies(p)
        \/ MatchHandlerReturns(p)
        \/ MatchHandlerRaises(p)
        \/ MatchDone(p)

SpecMatch == InitToggle /\ [][NextMatch]_vars

NextContract ==
    \E p \in {Caller} :
        \/ \E pre, post, post_shares, validate_return, args_ok \in BOOLEAN :
              ContractCall(p, pre, post, post_shares /\ post,
                           validate_return, args_ok)
        \/ \E raises, condition \in BOOLEAN :
              ContractPreEnds(p, raises, condition)
        \/ \E raises, ret_ok \in BOOLEAN : ContractFuncEnds(p, raises, ret_ok)
        \/ \E raises, condition \in BOOLEAN :
              ContractPostEnds(p, raises, condition)

SpecContract == InitToggle /\ [][NextContract]_vars

NextDecorated ==
    \E p \in {Caller} :
        \/ \E form \in Forms :
              \E pre, post, post_shares, validate_return, args_ok \in BOOLEAN :
                 DecoratedCall(p, form, pre, post, post_shares /\ post,
                               validate_return, args_ok)
        \/ \E raises, condition \in BOOLEAN :
              ContractPreEnds(p, raises, condition)
        \/ \E raises, ret_ok \in BOOLEAN : ContractFuncEnds(p, raises, ret_ok)
        \/ \E raises, condition \in BOOLEAN :
              ContractPostEnds(p, raises, condition)

SpecDecorated == InitToggle /\ [][NextDecorated]_vars

NextCast ==
    \E p \in {Caller} :
        \/ \E target \in CastTargets, sync \in BOOLEAN :
              CastCall(p, target, sync)
        \/ CastClassifyFails(p)
        \/ CastClassifyReplies(p)
        \/ CastServiceFails(p)
        \/ CastServiceReplies(p)
        \/ ValidatorServiceFails(p)
        \/ ValidatorServiceReplies(p)
        \/ BridgeBlocks(p)

SpecCast == InitToggle /\ [][NextCast]_vars

NextConstruct ==
    \E p \in {Caller} :
        \/ \E chain \in ClassChains, fields_ok \in BOOLEAN :
              Construct(p, chain, fields_ok)
        \/ ConstructServiceFails(p)
        \/ ConstructServiceReplies(p)

SpecConstruct == InitToggle /\ [][NextConstruct]_vars

(* Calls of the Response Generator that are handed mappings of the caller. *)
NextKwargs ==
    \E p \in {Caller} :
        \/ \E via \in Vias, N \in 1..MaxBudget,
              mk \in ModelKwargsInputs, pk \in PromptKwargsInputs :
                 KwargsCall(p, via, IF via = "fn" THEN N - 1 ELSE N, mk, pk)
        \/ KwargsServiceFails(p)
        \/ KwargsServiceReplies(p)

SpecKwargs == InitRG /\ [][NextKwargs]_vars

(* A map variant over a list of inputs, under each concurrency limit.      *)
MapLabelInputs ==
    {Labels("bool", <<>>), Labels("list", <<"a", "b">>),
     Labels("enum", <<"a", "b">>)}

NextMap ==
    \/ \E variant \in MapVariants, data \in DataInputs,
          labels \in MapLabelInputs, limit \in 1..MaxData :
             MapCall(variant, data, labels, limit)
    \/ \E i \in 1..MaxData : MapElementStarts(i)
    \/ \E i \in 1..MaxData : MapElementReplies(i)
    \/ \E i \in 1..MaxData : MapElementFails(i)

SpecMap == InitRG /\ [][NextMap]_vars

(* Concurrent calls of generate that share one cache key, whose history    *)
(* an earlier caching call with n = DequeMaxLen - 1 has filled up to one   *)
(* item below its capacity.                                                *)
(* Match calls of several tasks of one loop: a task runs from one await to *)
(* the next, and any task whose awaited reply is there may run next.  The  *)
(* toggle starts at its default, predicate evaluation enabled.             *)
ConcurrentMatchTerms ==
    {<<MatchTerm("str", "x")>>, <<MatchTerm("type", "int")>>}

MatchClassifySelects(p) ==
    \E i \in 0..1 : MatchClassified(p, FALSE, TRUE, i)

NextMatchConcurrent ==
    \E p \in Procs :
        \/ \E match_terms \in ConcurrentMatchTerms, fall_through \in BOOLEAN :
              MatchCall(p, match_terms, fall_through)
        \/ MatchClassifyFails(p)
        \/ MatchClassifySelects(p)
        \/ MatchServiceFails(p)
        \/ MatchServiceReplies(p)
        \/ MatchHandlerReturns(p)
        \/ MatchHandlerRaises(p)

SpecMatchConcurrent == InitRG /\ [][NextMatchConcurrent]_vars

SharedKey == GenerateCacheMaxSize

RecordedHistory == [i \in 1..(DequeMaxLen - 1) |-> DequeMaxLen - i]

InitGenerateShared ==
    InitIdle /\ GENERATE_CACHE = <<Entry(SharedKey, RecordedHistory)>>

NextGenerateShared ==
    \E p \in Procs :
        \/ \E use_cache \in BOOLEAN : GenerateCall(p, SharedKey, 2, use_cache)
        \/ GenerateServiceFails(p)
        \/ GenerateYields(p, 0)
        \/ GenerateYields(p, gen[p].n)

SpecGenerateShared == InitGenerateShared /\ [][NextGenerateShared]_vars

(* generate with a Model Service that may answer any number of times with  *)
(* too few items.  The fairness condition is the one the retry loop is     *)
(* stated under: a call that keeps waiting is eventually answered with at  *)
(* least n items.                                                          *)
GenerateYieldsEnough(p) ==
    \E len \in {gen[p].n, gen[p].n + 1} : GenerateYields(p, len)

NextGenerateRetry ==
    \E p \in {Caller} :
        \/ \E key \in CallKeys, use_cache \in BOOLEAN :
              GenerateCall(p, key, 2, use_cache)
        \/ GenerateServiceFails(p)
        \/ GenerateYields(p, 0)
        \/ GenerateYieldsEnough(p)

SpecGenerateFair ==
    /\ InitGenerate
    /\ [][NextGenerateRetry]_vars
    /\ WF_vars(GenerateYieldsEnough(Caller))


----------------------------------------------------------------------------
(* Claims about the Response Generator, checked under SpecRG.              *)

Replies(p) ==
    {i \in 1..Len(rg[p].new_messages) :
        rg[p].new_messages[i].role = "assistant"}

HasFinalCall(msg) ==
    \E j \in 1..Len(msg.tool_calls) : msg.tool_calls[j].name = return_tool_name

(* All N budgeted turns were answered and none held a final-answer call.   *)
Exhausted(p) ==
    /\ rg[p].status \in {"returned", "raised"}
    /\ Cardinality(Replies(p)) = rg[p].budget
    /\ \A i \in Replies(p) : ~HasFinalCall(rg[p].new_messages[i])

(* C1: a call with budget N makes at most N Model Service calls, and while *)
(* the loop goes on the remaining budget is N minus the turns made, so     *)
(* every turn that does not end the call lowers it by exactly one.         *)
C1_BudgetRespected ==
    \A p \in Procs :
        /\ rg[p].service_calls <= rg[p].budget
        /\ Len(rg[p].requests) = rg[p].service_calls
        /\ rg[p].status = "running" =>
              /\ rg[p].max_tool_usage_times >= 1
              /\ rg[p].max_tool_usage_times =
                     rg[p].budget - rg[p].service_calls

C1_Witness ==
    \E p \in Procs :
        /\ rg[p].status \in {"returned", "raised"}
        /\ rg[p].budget = MaxBudget
        /\ rg[p].service_calls = rg[p].budget

(* C2: a call that used its whole budget without a final-answer call ends  *)
(* in a GenerationExhausted failure, not in a normal return.               *)
C2_ExhaustionFails ==
    \A p \in Procs :
        Exhausted(p) =>
            rg[p].status = "raised" /\ rg[p].error = "GenerationExhausted"

(* C3: every value the Response Generator returns is the output of a       *)
(* final-answer tool call of the turn that ended the loop.                 *)
C3_ReturnsFinalAnswer ==
    \A p \in Procs :
        rg[p].status = "returned" =>
            \E i \in Replies(p) :
                /\ \A k \in Replies(p) : k <= i
                /\ \E j \in 1..Len(rg[p].new_messages[i].tool_calls) :
                      LET tc == rg[p].new_messages[i].tool_calls[j]
                      IN  /\ tc.name = return_tool_name
                          /\ tc.ok
                          /\ tc.out = rg[p].result

----------------------------------------------------------------------------
(* Claims about the Classifier, checked under SpecClassify.                *)

(* The declared label set of a labels argument.                            *)
LabelSet(labels) ==
    IF labels.kind = "bool" THEN {PyBool(TRUE), PyBool(FALSE)}
    ELSE IF labels.kind = "enum"
    THEN {EnumMember(labels.members[i]) : i \in 1..Len(labels.members)}
    ELSE {PyStr(labels.members[i]) : i \in 1..Len(labels.members)}

LabelCount(labels) ==
    IF labels.kind = "bool" THEN 2 ELSE Len(labels.members)

(* C4: a classify call that returns, returns an element of the declared    *)
(* label set, whatever the Model Service replied.                          *)
C4_ReturnsDeclaredLabel ==
    \A p \in Procs :
        cls[p].status = "returned" => cls[p].result \in LabelSet(cls[p].labels)

C4_Witness ==
    \E p \in Procs :
        /\ cls[p].status = "returned"
        /\ cls[p].labels.kind = "enum"
        /\ Len(cls[p].labels.members) = MaxLabels
        /\ cls[p].label_index = MaxLabels - 1

(* C5: whenever the decoded index is not in 0..L-1 (for boolean labels:    *)
(* not 0 or 1) the classify call fails with the out-of-range error and     *)
(* returns no label.                                                       *)
C5_OutOfRangeFails ==
    \A p \in Procs :
        /\ cls[p].status \in {"returned", "raised"}
        /\ cls[p].numeric
        /\ cls[p].label_index \notin 0..(LabelCount(cls[p].labels) - 1)
        => /\ cls[p].status = "raised"
           /\ cls[p].error = OutOfRangeError

----------------------------------------------------------------------------
(* Claims about generate and the Generation Cache, checked under           *)
(* SpecGenerate (from an empty cache) and SpecGenerateFull (from a cache   *)
(* holding GenerateCacheMaxSize keys).                                     *)

(* The step in which the generate call of p returns.                       *)
Returns(p) == gen[p].status = "awaiting" /\ gen'[p].status = "returned"

(* Items are numbered in the order the Model Service produced them, which  *)
(* is the order in which they are recorded.                                *)
Older(x, y) == x < y

(* The cache as a mapping: its keys, each with its history.                *)
CacheMap(cache) == {<<cache[i].key, cache[i].hist>> : i \in 1..Len(cache)}

(* The tokens of the first k items of s, for a small k.                    *)
RECURSIVE TokSum(_, _)
TokSum(s, k) == IF k = 0 THEN 0 ELSE TokSum(s, k - 1) + count_tokens(s[k])

(* The call of p follows a returned call of the same key, both caching.    *)
FollowsCachingCall(p) ==
    /\ gen[p].status # "idle"
    /\ gen[p].use_cache
    /\ gen[p].prev.returned
    /\ gen[p].prev.use_cache
    /\ gen[p].prev.cache_key = gen[p].cache_key

(* C6: a generate call that returns, returns exactly n items: the first n  *)
(* of the Response Generator's result, never a shorter list.               *)
C6_ReturnsExactlyN ==
    \A p \in Procs :
        gen[p].status = "returned" =>
            /\ Len(gen[p].result) = gen[p].n
            /\ gen[p].result = SubSeq(gen[p].raw, 1, gen[p].n)

C6_Witness ==
    \E p \in Procs :
        /\ gen[p].status = "returned"
        /\ gen[p].attempts > 1
        /\ Len(gen[p].raw) > gen[p].n

C8_Step ==
    \A i \in 1..Len(GENERATE_CACHE), j \in 1..Len(GENERATE_CACHE') :
        GENERATE_CACHE[i].key = GENERATE_CACHE'[j].key =>
            LET old == Range(GENERATE_CACHE[i].hist)
                new == Range(GENERATE_CACHE'[j].hist)
                recorded ==
                    UNION {Range(gen'[p].result) : p \in
                             {q \in Procs :
                                 /\ Returns(q) /\ gen[q].use_cache
                                 /\ gen[q].cache_key = GENERATE_CACHE[i].key}}
            IN  /\ new \subseteq old \cup recorded
                /\ \A x \in (old \cup recorded) \ new : \A y \in new : Older(x, y)

C8_BoundedOldestOut ==
    /\ [](\A i \in 1..Len(GENERATE_CACHE) :
              Len(GENERATE_CACHE[i].hist) <= DequeMaxLen)
    /\ [][C8_Step]_vars

C8_Witness ==
    \E p \in Procs :
        /\ gen[p].status = "returned"
        /\ gen[p].use_cache
        /\ gen[p].n < DequeMaxLen
        /\ Len(CacheGet(GENERATE_CACHE, gen[p].cache_key)) = DequeMaxLen

(* C9 as stated: when a caching call returns, all the items it returned    *)
(* are at the front of its key's history, and behind them the earlier      *)
(* items that remain, in their old order.                                  *)
C9_AllReturnedInFront ==
    [][\A p \in Procs :
          Returns(p) /\ gen[p].use_cache =>
              LET old == CacheGet(GENERATE_CACHE, gen[p].cache_key)
                  new == CacheGet(GENERATE_CACHE', gen[p].cache_key)
                  n == Len(gen'[p].result)
              IN  /\ Len(new) >= n
                  /\ Range(SubSeq(new, 1, n)) = Range(gen'[p].result)
                  /\ SubSeq(new, n + 1, Len(new)) =
                         SubSeq(old, 1, Len(new) - n)]_vars

(* C9, amended: the last min(n, DequeMaxLen) items it returned are at the  *)
(* front of its key's history, and behind them the most recent of the      *)
(* earlier items, in their old order.                                      *)
C9_LastReturnedInFront ==
    [][\A p \in Procs :
          Returns(p) /\ gen[p].use_cache =>
              LET old == CacheGet(GENERATE_CACHE, gen[p].cache_key)
                  new == CacheGet(GENERATE_CACHE', gen[p].cache_key)
                  n == Len(gen'[p].result)
                  m == Min(n, DequeMaxLen)
              IN  /\ Len(new) = Min(m + Len(old), DequeMaxLen)
                  /\ Range(SubSeq(new, 1, m)) =
                         Range(SubSeq(gen'[p].result, n - m + 1, n))
                  /\ SubSeq(new, m + 1, Len(new)) =
                         SubSeq(old, 1, Len(new) - m)]_vars

C9_Witness ==
    \E p \in Procs :
        /\ gen[p].status = "returned"
        /\ gen[p].use_cache
        /\ Len(CacheGet(GENERATE_CACHE, gen[p].cache_key)) > gen[p].n

(* C10: a call with use_cache disabled is shown no cached item and leaves  *)
(* the cache with the same keys and the same histories.                    *)
C10_NoCacheCallLeavesCache ==
    [][\A p \in Procs :
          gen'[p] # gen[p] /\ gen'[p].status # "idle" /\ ~gen'[p].use_cache =>
              /\ gen'[p].previous_responses = <<>>
              /\ CacheMap(GENERATE_CACHE') = CacheMap(GENERATE_CACHE)]_vars

----------------------------------------------------------------------------
(* Claims about match, checked under SpecMatch.                            *)

MatchEnded(m) == m.status \in {"returned", "raised"}

(* The handler of every match call is invoked at most once, and only       *)
(* after the one classification call of the match returned.                *)
HandlerAfterClassification(p) ==
    /\ Len(mt[p].invoked) <= 1
    /\ mt[p].classify_calls <= 1
    /\ mt[p].invoked # <<>> =>
          cls[p].status = "returned" /\ mt[p].classify_calls = 1
    /\ cls[p].status = "raised" => mt[p].invoked = <<>>

C12_HandlerAtSelectedIndex ==
    \A p \in Procs :
        /\ mt[p].invoked # <<>>
        /\ cls[p].label_index \in 0..(Len(mt[p].match_labels) - 1)
        => mt[p].invoked[1] = cls[p].label_index + 1

(* C16: when a match call has ended, by return or by any exception, the    *)
(* toggle has the value the call found on entry.                           *)
C16_ToggleRestored ==
    \A p \in Procs :
        MatchEnded(mt[p]) => disable_contract = mt[p].contract_setting

C16_Witness ==
    \E p \in Procs :
        /\ mt[p].status = "raised"
        /\ mt[p].error = "HandlerError"
        /\ ~mt[p].contract_setting
        /\ ~disable_contract

(* C17: predicate evaluation is disabled while match builds its labels,    *)
(* classifies and extracts or casts the payload, and the toggle has the    *)
(* value found on entry while the handler or the fallback runs.            *)
C17_ToggleScoped ==
    \A p \in Procs :
        /\ \A i \in 1..Len(mt[p].seen) :
              mt[p].seen[i].setting =
                  IF mt[p].seen[i].step = "handler"
                  THEN mt[p].contract_setting ELSE TRUE
        /\ mt[p].status \in {"classifying", "materializing"} =>
              disable_contract
        /\ mt[p].status = "handler" =>
              disable_contract = mt[p].contract_setting

C17_Witness ==
    \E p \in Procs :
        /\ mt[p].status = "handler"
        /\ ~mt[p].contract_setting
        /\ Len(mt[p].seen) = 4
        /\ ~disable_contract

(* A discriminator match supports: a text template or a type that has a    *)
(* label.                                                                  *)
SupportedDiscriminator(term) ==
    term.kind = "str" \/ term = MatchTerm("type", "int")

(* C18: a match call with an unsupported discriminator at any position     *)
(* fails with UnrecognizedMatchTerm, having made no Model Service call     *)
(* and invoked no handler.                                                 *)
C18_UnsupportedFailsAtSetup ==
    \A p \in Procs :
        /\ mt[p].status # "idle"
        /\ \E i \in 1..Len(mt[p].match_terms) :
              ~SupportedDiscriminator(mt[p].match_terms[i])
        => /\ mt[p].status = "raised"
           /\ mt[p].error \in UnrecognizedMatchTerm
           /\ mt[p].classify_calls = 0
           /\ cls[p].status = "idle"
           /\ rg[p].service_calls = 0
           /\ mt[p].invoked = <<>>

C18_Witness ==
    \E p \in Procs :
        /\ mt[p].status = "raised"
        /\ mt[p].error \in UnrecognizedMatchTerm
        /\ Len(mt[p].match_terms) = MaxTerms
        /\ SupportedDiscriminator(mt[p].match_terms[1])
        /\ ~SupportedDiscriminator(mt[p].match_terms[MaxTerms])

----------------------------------------------------------------------------
(* Claims about func_contract, checked under SpecContract.                 *)

Happened(c, event) == event \in Range(c.events)

(* event a stands before event b in the events of the call.                *)
Before(c, a, b) ==
    \E i, j \in 1..Len(c.events) :
        i < j /\ c.events[i] = a /\ c.events[j] = b

(* C13: with predicate evaluation enabled, a pre that evaluates to false   *)
(* makes the call fail with the precondition violation, and the wrapped    *)
(* operation is not invoked.                                               *)
C13_FalsePreBlocks ==
    \A p \in Procs :
        fc[p].pre_value = "false" =>
            /\ fc[p].pc = "raised"
            /\ fc[p].error = PreconditionViolation
            /\ fc[p].invoked = 0
            /\ ~Happened(fc[p], "func")

C13_Witness ==
    \E p \in Procs :
        /\ fc[p].pre_value = "false"
        /\ ~fc[p].disabled
        /\ fc[p].args_ok
        /\ fc[p].pc = "raised"

(* C14: post is evaluated, and a postcondition violation raised, only in   *)
(* a call whose wrapped operation was invoked exactly once and returned    *)
(* before.                                                                 *)
C14_PostAfterFunc ==
    \A p \in Procs :
        /\ fc[p].error = PostconditionViolation \/ fc[p].post_value # "none"
           \/ fc[p].pc = "in_post"
              => Happened(fc[p], "post")
        /\ Happened(fc[p], "post") =>
              /\ fc[p].invoked = 1
              /\ fc[p].returned = 1
              /\ Before(fc[p], "func", "func_returned")
              /\ Before(fc[p], "func_returned", "post")

C14_Witness ==
    \E p \in Procs :
        /\ fc[p].pc = "raised"
        /\ fc[p].error = PostconditionViolation
        /\ fc[p].pre_value = "true"

(* C15: the arguments of every call are validated before the operation is  *)
(* invoked, and a requested validation of the return value is applied to   *)
(* every value returned, with the toggle on or off.                        *)
C15_AlwaysValidated ==
    \A p \in Procs :
        /\ fc[p].invoked > 0 =>
              fc[p].args_ok /\ Before(fc[p], "validate_args", "func")
        /\ fc[p].pc = "returned" /\ fc[p].validate_return =>
              Happened(fc[p], "validate_return")

----------------------------------------------------------------------------
(* A further claim about the Response Generator, checked under SpecRG.     *)

(* C19: an auxiliary tool that raises in a turn that is not the last does  *)
(* not end the generation.                                                 *)
C19_AuxErrorFedBack ==
    \A p \in Procs :
        ~ /\ rg[p].status = "raised"
          /\ rg[p].error = "ToolError"
          /\ rg[p].service_calls < rg[p].budget

----------------------------------------------------------------------------
(* A claim about the synchronous bridge, checked under SpecCast.           *)

(* C20: run_sync is never called while an asynchronous engine operation    *)
(* is in flight on the caller's loop.                                      *)
C20_NoBridgeInFlight ==
    \A p \in Procs :
        \A i \in 1..Len(cst[p].bridge_calls) :
            cst[p].bridge_calls[i].in_flight = 0

----------------------------------------------------------------------------
(* C21: a Response Generator call leaves the caller's mappings unchanged:  *)
(* when the call has ended, the model_kwargs and the prompt_kwargs the     *)
(* caller passed in (directly, or through fn, match or the constraint      *)
(* validator) hold the entries they held before the call.                  *)
C21_KwargsUnchanged ==
    \A p \in Procs :
        rg[p].status \in {"returned", "raised"} /\ rg[p].caller \in Vias
            => /\ kw.model_kwargs = kw.model_before
               /\ kw.prompt_kwargs = kw.prompt_before

----------------------------------------------------------------------------
----------------------------------------------------------------------------
(* C23: under every interleaving of concurrent generate calls that share   *)
(* one cache key, the history of the key never holds more than 100 items,  *)
(* the items one call recorded form one contiguous block of it, and the    *)
(* blocks stand most recent first in the order in which they were          *)
(* recorded.                                                               *)

(* The positions of the history that hold items of the call process p made *)
(* last.                                                                   *)
Block(hist, p) == {i \in 1..Len(hist) : hist[i] \in Range(gen[p].result)}

Recorded(p) == gen[p].status = "returned" /\ gen[p].use_cache

(* Items are numbered as the Model Service produces them and a call        *)
(* records in the step in which its last reply arrives, so the call whose  *)
(* items are newer recorded later.                                         *)
RecordedAfter(p, q) == gen[p].result[1] > gen[q].result[1]

C23_SharedHistoryInBlocks ==
    LET hist == CacheGet(GENERATE_CACHE, SharedKey)
    IN  /\ Len(hist) <= DequeMaxLen
        /\ \A p \in Procs :
              Recorded(p) =>
                 \A i, j \in Block(hist, p) :
                    \A k \in i..j : k \in Block(hist, p)
        /\ \A p, q \in Procs :
              Recorded(p) /\ Recorded(q) /\ RecordedAfter(p, q) =>
                 \A i \in Block(hist, p), j \in Block(hist, q) : i < j
        /\ \A i \in 1..(Len(hist) - 1) : hist[i] > hist[i + 1]

(* Two calls that were in flight together have both recorded, the history  *)
(* is full, and the call that asked first recorded last.                   *)
C23_Witness ==
    LET hist == CacheGet(GENERATE_CACHE, SharedKey)
    IN  \E p, q \in Procs :
           /\ p # q /\ Recorded(p) /\ Recorded(q)
           /\ gen[p].prev = NoCall /\ gen[q].prev = NoCall
           /\ gen[p].attempts > 1
           /\ RecordedAfter(p, q)
           /\ Len(hist) = DequeMaxLen
           /\ Block(hist, p) = {1, 2} /\ Block(hist, q) = {3, 4}

----------------------------------------------------------------------------
(* C24: the request of a turn forces the final-answer tool exactly when    *)
(* the turn is the last one the budget leaves or the turn right before it  *)
(* produced no tool call; in every other turn, also one that follows a     *)
(* turn with tool calls after an earlier turn without any, the model       *)
(* chooses freely.                                                         *)
IsReply(msg) == msg.role = "assistant"

(* The replies of the turns before the request was sent, in turn order.    *)
RepliesBefore(request) == SelectSeq(request.extra_messages, IsReply)

C24_ForcedIffLastOrAfterSilence ==
    \A p \in Procs :
        \A k \in 1..Len(rg[p].requests) :
            LET request == rg[p].requests[k]
                last == k = rg[p].budget
                silent == /\ k > 1
                          /\ RepliesBefore(request)[k - 1].tool_calls = <<>>
            IN  request.tool_choice = return_tool_name <=> last \/ silent

----------------------------------------------------------------------------
(* C25: the Response Generator returns in the first turn whose tool calls  *)
(* include a call of the final-answer tool: it returns the output of the   *)
(* first such call of that turn, makes no Model Service call afterwards,   *)
(* and every tool call requested in that turn, auxiliary calls included,   *)
(* has been executed exactly once before it returns.                       *)

(* The reply of the turn made last holds a call of the final-answer tool.  *)
FinalCallRequested(r) ==
    \E j \in 1..Len(r.tool_calls) : r.tool_calls[j].name = return_tool_name

FirstFinalCall(r) ==
    CHOOSE j \in 1..Len(r.tool_calls) :
        /\ r.tool_calls[j].name = return_tool_name
        /\ \A i \in 1..(j - 1) : r.tool_calls[i].name # return_tool_name

(* The ids of the tool calls of the turn made last, in call order.         *)
RequestedCalls(r) ==
    [i \in 1..Len(r.tool_calls) |-> (r.service_calls - 1) * MaxToolCalls + i]

(* No turn before the last one made held a final-answer call, and the      *)
(* last request sent is the request of the last turn.                      *)
NoTurnAfterFinalCall(p) ==
    /\ \A i \in Replies(p) :
          HasFinalCall(rg[p].new_messages[i])
              => /\ rg[p].status = "returned"
                 /\ \A k \in Replies(p) : k <= i
    /\ FinalCallRequested(rg[p])
          => /\ Len(rg[p].requests) = rg[p].service_calls
             /\ Cardinality(Replies(p)) \in {rg[p].service_calls - 1,
                                             rg[p].service_calls}

ReturnsFirstFinalCall(r) ==
    /\ r.status = "returned"
    /\ r.result = r.tool_calls[FirstFinalCall(r)].out
    /\ r.executed = RequestedCalls(r)

----------------------------------------------------------------------------
(* C26: the transcript only grows and the turns follow one another: the    *)
(* request of turn k holds, after the rendered prompt, for each earlier    *)
(* turn in order the reply of that turn and then the outputs of its tool   *)
(* calls in call order; nothing sent before is removed or reordered.  The  *)
(* prompt is rendered anew from the same template for every request; the   *)
(* messages after it are what the requests record.                         *)
IsPrefix(s, t) == Len(s) <= Len(t) /\ SubSeq(t, 1, Len(s)) = s

(* The message that carries the output of the i-th tool call of the reply  *)
(* of turn k.                                                              *)
OutputMessage(reply, k, i) ==
    [role |-> "tool", tool_calls |-> <<>>,
     content |-> reply.tool_calls[i].out,
     tool_call_id |-> (k - 1) * MaxToolCalls + i]

C26_TranscriptAppendOnly ==
    \A p \in Procs :
        LET sent == [k \in 1..Len(rg[p].requests) |->
                        rg[p].requests[k].extra_messages]
        IN  /\ Len(sent) > 0 => sent[1] = <<>>
            /\ \A k \in 2..Len(sent) :
                  LET before == sent[k - 1]
                      reply == sent[k][Len(before) + 1]
                      n == Len(reply.tool_calls)
                  IN  /\ IsPrefix(before, sent[k])
                      /\ Len(sent[k]) = Len(before) + 1 + n
                      /\ reply.role = "assistant"
                      /\ \A i \in 1..n :
                            sent[k][Len(before) + 1 + i]
                                = OutputMessage(reply, k - 1, i)
            /\ Len(sent) > 0 => IsPrefix(sent[Len(sent)], rg[p].new_messages)

(* A third request after a turn with two tool calls and a turn with one.   *)
C26_Witness ==
    \E p \in Procs :
        /\ Len(rg[p].requests) = 3
        /\ Len(rg[p].requests[2].extra_messages) = 3
        /\ Len(rg[p].requests[3].extra_messages) = 5
        /\ rg[p].requests[3].extra_messages[2].tool_call_id
              # rg[p].requests[3].extra_messages[3].tool_call_id

----------------------------------------------------------------------------
(* C27: the labels stand in the prompt in the order in which they were     *)
(* supplied, numbered from 0, and for every reply index i in 0..len-1 the  *)
(* label returned is the one the prompt shows with number i: a boolean     *)
(* target yields false for 0 and true for 1, an enum the member rebuilt    *)
(* from the label shown.                                                   *)

(* The label the prompt shows with the number given.                       *)
ShownWithNumber(c, number) ==
    LET i == CHOOSE j \in 1..Len(c.prompt_labels) :
                 c.prompt_labels[j].number = number
    IN  c.prompt_labels[i].label

C27_DecodesTheLabelShown ==
    \A p \in Procs :
        LET c == cls[p]
        IN  /\ c.status # "idle"
               => /\ \A i \in 1..Len(c.prompt_labels) :
                        c.prompt_labels[i].number = i - 1
                  /\ c.labels.kind # "bool"
                        => /\ Len(c.prompt_labels) = Len(c.labels.members)
                           /\ \A i \in 1..Len(c.labels.members) :
                                 c.prompt_labels[i].label = c.labels.members[i]
                  /\ c.labels.kind = "bool"
                        => [i \in 1..Len(c.prompt_labels) |->
                               c.prompt_labels[i].label] = <<"false", "true">>
            /\ /\ c.status \in {"returned", "raised"} /\ c.numeric
               /\ c.label_index \in 0..(Len(c.prompt_labels) - 1)
               => /\ c.status = "returned"
                  /\ c.result =
                        CASE c.labels.kind = "bool" ->
                                PyBool(ShownWithNumber(c, c.label_index)
                                           = "true")
                          [] c.labels.kind = "enum" ->
                                EnumMember(ShownWithNumber(c, c.label_index))
                          [] OTHER ->
                                PyStr(ShownWithNumber(c, c.label_index))

(* The last of three different members of an enum was chosen.              *)
C27_Witness ==
    \E p \in Procs :
        /\ cls[p].status = "returned"
        /\ cls[p].labels = Labels("enum", <<"b", "a", "c">>)
        /\ cls[p].label_index = 2
        /\ cls[p].result = EnumMember("c")

----------------------------------------------------------------------------
(* C28: the cached items a generate call shows fit under the token cap:    *)
(* the token counts of the items in previous_responses never add up to     *)
(* more than the cap.                                                      *)
C28_ShownFitUnderCap ==
    \A p \in Procs :
        gen[p].status # "idle" =>
            TokSum(gen[p].previous_responses,
                   Len(gen[p].previous_responses)) <= TokenCap

----------------------------------------------------------------------------
(* C29: generate makes the whole Response Generator call again each time a *)
(* call yields fewer than n items and stops at the first call that yields  *)
(* at least n, however many calls that takes; when the Model Service       *)
(* eventually yields at least n items, every generate call ends.           *)

(* A step of a waiting generate call: it returns only on a list of at      *)
(* least n items and returns on every such list; it goes on waiting, with  *)
(* a Response Generator call started afresh, only on a shorter one, at any *)
(* number of attempts made.                                                *)
C29_Step(p) ==
    gen[p].status = "awaiting" =>
        /\ gen'[p].status = "returned" => Len(gen'[p].raw) >= gen[p].n
        /\ gen'[p].raw # gen[p].raw /\ Len(gen'[p].raw) >= gen[p].n
              => gen'[p].status = "returned"
        /\ gen'[p].status = "awaiting" /\ gen'[p] # gen[p]
              => /\ Len(gen'[p].raw) < gen[p].n
                 /\ rg'[p] = RGEnter("generate", 1)
                 /\ gen'[p].attempts = Min(gen[p].attempts + 1, MaxAttempts)

C29_RetriesUntilEnough ==
    /\ [][\A p \in Procs : C29_Step(p)]_vars
    /\ gen[Caller].status = "awaiting"
          ~> gen[Caller].status \in {"returned", "raised"}

(* A call returned exactly n items after MaxAttempts or more attempts.     *)
C29_Witness ==
    \E p \in Procs :
        /\ gen[p].status = "returned"
        /\ gen[p].attempts = MaxAttempts
        /\ Len(gen[p].raw) = gen[p].n
        /\ rg[p].service_calls = 1

----------------------------------------------------------------------------
(* C30: func_contract evaluates post with the bound arguments whose names  *)
(* it declares plus `result`, for every post predicate, also one that      *)
(* declares argument names of the wrapped operation: whenever the          *)
(* operation has returned a value that passed the validation asked for,    *)
(* the post predicate given is evaluated.                                  *)
C30_PostEvaluatedWithBindings ==
    \A p \in Procs :
        LET c == fc[p]
        IN  /\ c.post /\ ~c.disabled
            /\ Happened(c, "func_returned")
            /\ c.error # "ValidationError"
            => /\ Happened(c, "post")
               /\ c.error # "KeyError"

----------------------------------------------------------------------------
(* Claims about the label set and the fallback of match, checked under     *)
(* SpecMatch.                                                              *)

(* The label set of a match call that reached its classification: the      *)
(* discriminators' labels in the order supplied, then the catch-all label  *)
(* when a fallback was given and nothing more when none was.               *)
LabelSetAsSupplied(m) ==
    LET n == Len(m.match_terms)
    IN  /\ Len(m.match_labels) = n + (IF m.fall_through THEN 1 ELSE 0)
        /\ \A i \in 1..n : m.match_labels[i] = TermLabel(m.match_terms[i])
        /\ m.fall_through => m.match_labels[n + 1] = fall_through_label

(* C31: with a fallback the label set is the discriminators' labels in     *)
(* the order supplied followed by the catch-all label, and a Classifier    *)
(* that selects that last index has the fallback invoked with no cast or   *)
(* extraction call; without a fallback there is one label per              *)
(* discriminator and no more.                                              *)
C31_LastIndexRunsFallback ==
    \A p \in Procs :
        LET m == mt[p]
            n == Len(m.match_terms)
        IN  /\ m.match_labels # <<>> => LabelSetAsSupplied(m)
            /\ (/\ m.fall_through
                /\ m.match_labels # <<>>
                /\ cls[p].status = "returned"
                /\ cls[p].label_index = n)
               => /\ m.status \in {"handler", "returned", "raised"}
                  /\ m.invoked = <<n + 1>>
                  /\ rg[p].service_calls = 0
                  /\ rg[p].status = "idle"

(* The slot names of the templates of the inputs, read off their text.     *)
SlotNames(template) ==
    CASE template = "{a} {b}" -> {<<"a">>, <<"b">>}
      [] template = "{a}{a}" -> {<<"a">>}
      [] OTHER -> {}

(* The discriminator whose continuation a match call runs.                 *)
SelectedTerm(m) == m.match_terms[m.label_index + 1]

RunsTemplateBranch(m) ==
    /\ m.label_index \in 0..(Len(m.match_terms) - 1)
    /\ SelectedTerm(m).kind = "str"

(* C32: the handler of a text-template branch is invoked with one keyword  *)
(* argument per slot name of the template and nothing else, none for a     *)
(* template without slots; a slot the extraction did not fill is passed    *)
(* as None, and an extraction that ended with a result has the handler     *)
(* invoked.                                                                *)
C32_OneKeywordPerSlot ==
    \A p \in Procs :
        LET m == mt[p]
            given == m.arguments.keywords
        IN  RunsTemplateBranch(m) =>
              /\ m.invoked # <<>> =>
                    /\ m.arguments.positional = <<>>
                    /\ Keys(given) = SlotNames(SelectedTerm(m).name)
                    /\ Cardinality(given) = Cardinality(Keys(given))
                    /\ \A e \in given : e.value \in {None, Scalar(1)}
                    /\ given = ModelDict(rg[p].result)
              /\ rg[p].status = "returned" /\ rg[p].result # None =>
                    m.invoked = <<m.label_index + 1>>

(* A handler was invoked with one slot filled and the other passed as      *)
(* None.                                                                   *)
C32_Witness ==
    \E p \in Procs :
        /\ RunsTemplateBranch(mt[p])
        /\ mt[p].status = "returned"
        /\ SelectedTerm(mt[p]).name = "{a} {b}"
        /\ mt[p].arguments.keywords =
              {DictEntry(<<"a">>, Scalar(1)), DictEntry(<<"b">>, None)}

C32_WitnessNoSlots ==
    \E p \in Procs :
        /\ RunsTemplateBranch(mt[p])
        /\ mt[p].status = "returned"
        /\ SelectedTerm(mt[p]).name = "x"
        /\ mt[p].arguments = [positional |-> <<>>, keywords |-> {}]
----------------------------------------------------------------------------
(* Claims about the turns and the tool invocations of an fn call, checked  *)
(* under SpecKwargs.                                                       *)

(* The calls of the tools passed in as arguments among the first upto tool *)
(* calls of a reply.                                                       *)
AuxCalls(tool_calls, upto) ==
    Cardinality({j \in 1..upto : tool_calls[j].name = aux_tool_name})

RECURSIVE AuxCallsOfReplies(_)
AuxCallsOfReplies(replies) ==
    IF replies = <<>> THEN 0
    ELSE AuxCalls(Head(replies).tool_calls, Len(Head(replies).tool_calls))
         + AuxCallsOfReplies(Tail(replies))

(* The invocations of such tools in a call so far: every call of the       *)
(* replies of the turns before the last one made, and of the last reply    *)
(* the calls that _get_tool_outputs ran.                                   *)
AuxInvocations(r) ==
    IF r.service_calls = 0 THEN 0
    ELSE AuxCallsOfReplies(RepliesBefore(r.requests[r.service_calls]))
         + AuxCalls(r.tool_calls, Len(r.executed))

(* C33: a call of a function decorated with fn and max_tool_usage_times =  *)
(* k makes at most k + 1 turns, turn k + 1 is requested with the           *)
(* final-answer tool forced, and the tools passed in as arguments are      *)
(* invoked at most k times in the call.                                    *)
C33_AtMostKToolInvocations ==
    \A p \in Procs :
        rg[p].caller = "fn" =>
            LET k == rg[p].budget - 1
            IN  /\ rg[p].service_calls <= k + 1
                /\ rg[p].service_calls = k + 1 =>
                      rg[p].requests[k + 1].tool_choice = return_tool_name
                /\ AuxInvocations(rg[p]) <= k
----------------------------------------------------------------------------
(* Claims about a generate call whose Model Service call fails, checked    *)
(* under SpecGenerate.                                                     *)

(* C34: when a Model Service call made for generate fails, generate has    *)
(* ended with that failure, no Response Generator call of it is left       *)
(* running, and the history of its cache key holds the items it held       *)
(* before the call.                                                        *)
C34_FailureRecordsNothing ==
    \A p \in Procs :
        /\ (/\ gen[p].status # "idle"
            /\ rg[p].caller = "generate"
            /\ rg[p].status = "raised"
            /\ rg[p].error = "TransportError")
           => gen[p].status = "raised" /\ gen[p].error = "TransportError"
        /\ gen[p].status = "raised" /\ gen[p].error = "TransportError" =>
              /\ rg[p].status = "raised"
              /\ History(GENERATE_CACHE, gen[p].cache_key)
                    = gen[p].history_before

(* A caching call failed in its second attempt, after a first attempt      *)
(* that returned an item, for a key that held an item before the call.     *)
C34_Witness ==
    \E p \in Procs :
        /\ gen[p].status = "raised"
        /\ gen[p].error = "TransportError"
        /\ gen[p].use_cache
        /\ gen[p].attempts = 2
        /\ gen[p].result # <<>>
        /\ gen[p].history_before # <<>>
----------------------------------------------------------------------------
(* Claims about concurrent match calls, checked under SpecMatchConcurrent. *)

(* The toggle before any call started: the initial value of                *)
(* SpecMatchConcurrent.                                                    *)
ToggleAtStart == FALSE

InternalCallPending(m) == m.status \in {"classifying", "materializing"}

(* C35: in every interleaving of concurrent match calls every handler is   *)
(* invoked under the toggle value from before the calls, the toggle is     *)
(* set (predicate evaluation disabled) while a classification or payload   *)
(* call of a match is pending, and when all the calls have ended the       *)
(* toggle has the value from before the calls.                             *)
C35_ConcurrentMatchesScopeToggle ==
    /\ \A p \in Procs :
          /\ \A i \in 1..Len(mt[p].seen) :
                mt[p].seen[i].step = "handler" =>
                    mt[p].seen[i].setting = ToggleAtStart
          /\ InternalCallPending(mt[p]) => disable_contract
    /\ (\A p \in Procs : MatchEnded(mt[p])) => disable_contract = ToggleAtStart
----------------------------------------------------------------------------
(* Claims about the order of a recorded history, checked under             *)
(* SpecGenerate.                                                           *)

(* Process p starts a caching generate call in this step.                  *)
StartsCaching(p) ==
    /\ calls' = calls + 1
    /\ gen'[p].status = "awaiting"
    /\ gen'[p].attempts = 1
    /\ gen'[p].use_cache

(* What a caching call is shown is a leading part of its key's history,    *)
(* in the order stored.                                                    *)
ShownInStoredOrder(p) ==
    StartsCaching(p) =>
        IsPrefix(gen'[p].previous_responses,
                 CacheGet(GENERATE_CACHE', gen'[p].cache_key))

(* C36 as stated: when a caching call returns r1..rn its key's history is  *)
(* rn, ..., r1 followed by the earlier items, and a later call is shown    *)
(* cached items in the stored order.                                       *)
C36_ReversedBeforeEarlier ==
    [][\A p \in Procs :
          /\ Returns(p) /\ gen[p].use_cache =>
                CacheGet(GENERATE_CACHE', gen[p].cache_key) =
                    Reverse(gen'[p].result)
                    \o CacheGet(GENERATE_CACHE, gen[p].cache_key)
          /\ ShownInStoredOrder(p)]_vars

(* C36, amended: the history starts with the last min(n, DequeMaxLen)      *)
(* returned items in reverse order, followed by the most recent of the     *)
(* earlier items that fit in DequeMaxLen, in their old order; a later call *)
(* is shown cached items in the stored order.                              *)
C36_ReversedWithinBound ==
    [][\A p \in Procs :
          /\ Returns(p) /\ gen[p].use_cache =>
                LET old == CacheGet(GENERATE_CACHE, gen[p].cache_key)
                    new == CacheGet(GENERATE_CACHE', gen[p].cache_key)
                    n == Len(gen'[p].result)
                    m == Min(n, DequeMaxLen)
                IN  /\ Len(new) = Min(n + Len(old), DequeMaxLen)
                    /\ \A i \in 1..m : new[i] = gen'[p].result[n + 1 - i]
                    /\ \A i \in (m + 1)..Len(new) : new[i] = old[i - m]
          /\ ShownInStoredOrder(p)]_vars

(* A caching call returned two items on a key with earlier items: the      *)
(* history starts with the second, then the first.                         *)
C36_Witness ==
    \E p \in Procs :
        /\ gen[p].status = "returned"
        /\ gen[p].use_cache
        /\ Len(gen[p].result) = 2
        /\ LET hist == CacheGet(GENERATE_CACHE, gen[p].cache_key)
           IN  /\ Len(hist) > 2
               /\ hist[1] = gen[p].result[2]
               /\ hist[2] = gen[p].result[1]
               /\ hist[3] < hist[2]
----------------------------------------------------------------------------
(* Claims about the two forms of func_contract, checked under              *)
(* SpecDecorated.                                                          *)

(* C37: with predicate evaluation enabled, a wrapper made in either form,  *)
(* func_contract(f, ..., validate_return=v) or                             *)
(* func_contract(..., validate_return=v)(f), validates the value its       *)
(* operation returned exactly when v is true.                              *)
C37_FormsValidateAlike ==
    \A p \in Procs :
        ~fc[p].disabled /\ Happened(fc[p], "func_returned") =>
            (Happened(fc[p], "validate_return") <=> fc[p].requested)
----------------------------------------------------------------------------
(* Claims about constructing a NaturalLangType instance, checked under     *)
(* SpecConstruct.                                                          *)

Constructed(c) == c.sync /\ c.status \in {"returned", "raised"}

(* The answer of the constraint validation, when there is one.             *)
Answered(c, v) ==
    c.nested.status = "returned" /\ c.nested.result = Scalar(v)

(* C38: a construction with the toggle set or with no constraint in the    *)
(* class chain makes no request and succeeds unless a field fails          *)
(* structural validation; any other construction whose fields pass makes   *)
(* exactly one validation request, succeeds when the answer is true and    *)
(* fails with a validation error that lists the constraints when it is     *)
(* false.                                                                  *)
C38_OneRequestWhenConstrained ==
    \A p \in Procs :
        LET c == cst[p]
        IN  Constructed(c) =>
              IF disable_contract \/ c.constraints = <<>>
              THEN /\ c.nested.service_calls = 0
                   /\ c.bridge_calls = <<>>
                   /\ c.status = "returned" \/ c.error = StructuralError
              ELSE c.error # StructuralError =>
                      /\ c.nested.service_calls = 1
                      /\ Len(c.nested.requests) = 1
                      /\ Answered(c, 1) => c.status = "returned"
                      /\ Answered(c, 0) =>
                            /\ c.status = "raised"
                            /\ c.error = ConstraintsNotMet
                            /\ c.listed = c.constraints

(* A construction with the constraints of two classes of the chain failed  *)
(* on the answer false, listing both.                                      *)
C38_Witness ==
    \E p \in Procs :
        /\ Constructed(cst[p])
        /\ ~disable_contract
        /\ Answered(cst[p], 0)
        /\ cst[p].listed = <<"c1", "c2">>

C38_WitnessDisabled ==
    \E p \in Procs :
        /\ Constructed(cst[p])
        /\ disable_contract
        /\ cst[p].constraints # <<>>
        /\ cst[p].status = "returned"
----------------------------------------------------------------------------
(* Claims about the AIEnum classifier, checked under SpecAIEnum.           *)

(* C39: for an enum of L members the options are shown with the numbers    *)
(* 1..L in member order, the tokens given a bias are those of the numbers  *)
(* 1..L, and a reply k in 1..L returns the k-th member, which is the       *)
(* member shown with the number k.                                         *)
C39_NumberingConsistent ==
    \A p \in Procs :
        LET c == cls[p]
            members == c.labels.members
            L == Len(members)
            k == IntOf(c.content)
        IN  c.logit_bias # {} =>
              /\ Len(c.prompt_labels) = L
              /\ \A i \in 1..L :
                    c.prompt_labels[i] = [number |-> i, label |-> members[i]]
              /\ {IntOf(token) : token \in c.logit_bias} = 1..L
              /\ Cardinality(c.logit_bias) = L
              /\ (c.status \in {"returned", "raised"} /\ c.numeric
                  /\ k \in 1..L)
                 => /\ c.status = "returned"
                    /\ c.result = EnumMember(members[k])
                    /\ c.result = EnumMember(ShownWithNumber(c, k))

(* The reply 3 returned the last of three members.                         *)
C39_Witness ==
    \E p \in Procs :
        /\ cls[p].logit_bias # {}
        /\ cls[p].status = "returned"
        /\ cls[p].labels.members = <<"b", "a", "c">>
        /\ cls[p].content = <<3>>
        /\ cls[p].result = EnumMember("c")
============================================================================
